---- MODULE Spec2Model ----
(***************************************************************************)
(* A model of deadbeefbot's article-history merge: the aggregate decoder,  *)
(* the secondary-template extractors, status resolution, the parameter     *)
(* builder and the treat orchestrator.                                      *)
(*                                                                         *)
(* Strings are sequences of chunks.  Status strings carry one chunk per    *)
(* character so that starts_with, contains and '/'-joining are computed as *)
(* the code computes them; other texts are a single word chunk unless the  *)
(* code concatenates them.  Option<T> is a sequence of length 0 or 1.      *)
(***************************************************************************)
EXTENDS Integers, Sequences, FiniteSets, TLC

VARIABLES
    pc,         \* position inside treat / the driver of the pure functions
    title,      \* cx.title
    prompt,     \* treat's prompt argument
    interactive,\* cx.allow_interactive
    templates,  \* wikicode.filter_templates(): the blocks, in document order
    created,    \* ah_created: the freshly mounted aggregate block, if any, and
                \* the block it was inserted before
    target,     \* which block is article_history: 0 = created, n = templates[n]
    ah,         \* Option<ArticleHistory>: the aggregate being built
    input,      \* the aggregate as it was handed to sort_and_update_status
    idx,        \* position of the Fold loop in templates
    outcome,    \* how the operation ended
    edits,      \* the edits treat sent for the page (build_edit ... send)
    page        \* position of main's loop in the list of pages

vars == <<pc, title, prompt, interactive, templates, created, target, ah,
          input, idx, outcome, edits, page>>

----------------------------------------------------------------------------
(* Option and Result                                                        *)

None == <<>>
Some(x) == <<x>>
IsSome(o) == Len(o) = 1
IsNone(o) == Len(o) = 0
Unwrap(o) == o[1]

S(w) == <<w>>

Ok(v) == [ok |-> TRUE, v |-> v, err |-> "", panic |-> FALSE]
Err(e) == [ok |-> FALSE, v |-> <<>>, err |-> e, panic |-> FALSE]
Panic(e) == [ok |-> FALSE, v |-> <<>>, err |-> e, panic |-> TRUE]

----------------------------------------------------------------------------
(* Bounds                                                                   *)

MaxActions == 2
MaxBlocks == 2
MaxPages == 2

RECURSIVE SeqsUpTo(_, _)
SeqsUpTo(X, n) ==
    IF n = 0 THEN {<<>>}
    ELSE LET shorter == SeqsUpTo(X, n - 1)
         IN shorter \cup {Append(s, x) : s \in shorter, x \in X}

----------------------------------------------------------------------------
(* Dates: PreserveDate keeps the parsed instant and the original text.      *)

\* timelib::strtotime on the date texts the model uses; <<>> is a parse failure.
strtotime(x) ==
    CASE x = S("January 1, 2020") -> Some(1)
      [] x = S("2020-01-01") -> Some(1)
      [] x = S("1 March 2021") -> Some(2)
      [] x = S("5 May 2022") -> Some(3)
      [] x = <<"January 1", " ", "2020">> -> Some(1)
      [] x = <<"1 March", " ", "2021">> -> Some(2)
      [] OTHER -> None

\* a date that keeps a normalised text in place of the text it was read from
try_from_string_normalising(x) ==
    IF IsSome(strtotime(x))
    THEN Ok([date |-> Unwrap(strtotime(x)),
             orig |-> CASE Unwrap(strtotime(x)) = 1 -> S("2020-01-01")
                        [] Unwrap(strtotime(x)) = 2 -> S("2021-03-01")
                        [] OTHER -> S("2022-05-05")])
    ELSE Err("DateParseFailure")

try_from_string(x) ==
    IF IsSome(strtotime(x))
    THEN Ok([date |-> Unwrap(strtotime(x)), orig |-> x])
    ELSE Err("DateParseFailure")

----------------------------------------------------------------------------
(* Status tokens, one chunk per character.                                  *)

FA == <<"F", "A">>
FFAC == <<"F", "F", "A", "C">>
FFA == <<"F", "F", "A">>
FL == <<"F", "L">>
FFLC == <<"F", "F", "L", "C">>
FFL == <<"F", "F", "L">>
FPO == <<"F", "P", "O">>
FFPOC == <<"F", "F", "P", "O", "C">>
FFPO == <<"F", "F", "P", "O">>
GA == <<"G", "A">>
FGAN == <<"F", "G", "A", "N">>
DGA == <<"D", "G", "A">>
Slash == <<"/">>

\* str::to_ascii_lowercase on one chunk
LowerChunk(c) ==
    CASE c = "Promoted" -> "promoted"
      [] c = "PROMOTED" -> "promoted"
      [] c = "Failed" -> "failed"
      [] c = "Listed" -> "listed"
      [] c = "Not Listed" -> "not listed"
      [] c = "Removed" -> "removed"
      [] c = "Delisted" -> "delisted"
      [] c = "Kept" -> "kept"
      [] OTHER -> c

to_ascii_lowercase(s) == [i \in 1..Len(s) |-> LowerChunk(s[i])]

PassLike == {S("promoted"), S("pass"), S("passed")}
FailLike == {S("not promoted"), S("fail"), S("failed")}
KeptLike == {S("kept"), S("pass"), S("passed"), S("keep")}
DemotedLike == {S("demoted"), S("removed"), S("remove"), S("fail"), S("failed")}
GanPass == {S("listed"), S("promoted"), S("pass"), S("passed")}
GanFail == {S("not listed"), S("not promoted"), S("fail"), S("failed")}
GarFail == {S("delisted"), S("fail"), S("failed")}
NoTokenKinds == {"GTC", "PR", "WPR", "WAR", "AFD", "MFD", "TFD", "CSD", "PROD", "DRV"}

\* an arm that reads a promotion out of the result of any kind
no_status_reading_result(a) ==
    IF IsSome(a.result) /\ to_ascii_lowercase(Unwrap(a.result)) \in PassLike
    THEN Ok(Some(FA)) ELSE Ok(None)

\* the arms (Bp, _), (Ftc, _), (Ftr, _) and (Gtc | Pr | ... | Drv, _)
no_status(a) == Ok(None)

\* Action::opt_to_current_status: Ok(Some(token)), Ok(None) or an error
opt_to_current_status(a) ==
    LET res == IF IsSome(a.result) THEN Some(to_ascii_lowercase(Unwrap(a.result)))
               ELSE None
        is(set) == IsSome(res) /\ Unwrap(res) \in set
        k == a.kind
    IN CASE k = "FAC" /\ is(PassLike) -> Ok(Some(FA))
         [] k = "FAC" /\ is(FailLike) -> Ok(Some(FFAC))
         [] k = "FAC" -> Err("UnknownActionResult")
         [] k = "FAR" /\ is(KeptLike) -> Ok(Some(FA))
         [] k = "FAR" /\ is(DemotedLike) -> Ok(Some(FFA))
         [] k = "FAR" -> Err("UnknownActionResult")
         [] k = "RBP" -> Err("UnknownActionResult")
         [] k = "BP" -> no_status(a)
         [] k = "FLC" /\ is(PassLike) -> Ok(Some(FL))
         [] k = "FLC" /\ is(FailLike) -> Ok(Some(FFLC))
         [] k = "FLC" -> Err("UnknownActionResult")
         [] k = "FLR" /\ is(KeptLike) -> Ok(Some(FL))
         [] k = "FLR" /\ is(DemotedLike) -> Ok(Some(FFL))
         [] k = "FLR" -> Err("UnknownActionResult")
         [] k = "FTC" -> no_status(a)
         [] k = "FTR" -> no_status(a)
         [] k = "FPROC" /\ is(PassLike) -> Ok(Some(FPO))
         [] k = "FPROC" /\ is(FailLike) -> Ok(Some(FFPOC))
         [] k = "FPROC" -> Err("UnknownActionResult")
         [] k = "FPOR" /\ is(KeptLike) -> Ok(Some(FPO))
         [] k = "FPOR" /\ is(DemotedLike) -> Ok(Some(FFPO))
         [] k = "FPOR" -> Err("UnknownActionResult")
         [] k = "GAN" /\ is(GanPass) -> Ok(Some(GA))
         [] k = "GAN" /\ is(GanFail) -> Ok(Some(FGAN))
         [] k = "GAN" -> Err("UnknownActionResult")
         [] k = "GAR" /\ is(KeptLike) -> Ok(Some(GA))
         [] k = "GAR" /\ is(GarFail) -> Ok(Some(DGA))
         [] k = "GAR" -> Err("UnknownActionResult")
         [] k \in NoTokenKinds -> no_status(a)

----------------------------------------------------------------------------
(* ArticleHistory::sort_and_update_status                                   *)

\* a sort that puts an action before the earlier ones of its instant
RECURSIVE sort_by_key_unstable(_)
sort_by_key_unstable(actions) ==
    IF actions = <<>> THEN <<>>
    ELSE LET n == Len(actions)
             a == actions[n]
             front == sort_by_key_unstable(SubSeq(actions, 1, n - 1))
             k == Cardinality({i \in 1..(n - 1) : front[i].date.date < a.date.date})
         IN SubSeq(front, 1, k) \o <<a>> \o SubSeq(front, k + 1, n - 1)

\* Vec::sort_by_key(|action| action.date.date): a stable sort on the instant
RECURSIVE sort_by_key(_)
sort_by_key(actions) ==
    IF actions = <<>> THEN <<>>
    ELSE LET n == Len(actions)
             a == actions[n]
             front == sort_by_key(SubSeq(actions, 1, n - 1))
             k == Cardinality({i \in 1..(n - 1) : front[i].date.date <= a.date.date})
         IN SubSeq(front, 1, k) \o <<a>> \o SubSeq(front, k + 1, n - 1)

\* the fold of the earlier revision: from the most recent action down, ended
\* by the first token
RECURSIVE collect_status_until_token(_)
collect_status_until_token(actions) ==
    IF actions = <<>> THEN Ok(<<>>)
    ELSE LET n == Len(actions)
             r == opt_to_current_status(actions[n])
         IN IF ~r.ok THEN Err(r.err)
            ELSE IF IsSome(r.v) THEN Ok(r.v)
            ELSE collect_status_until_token(SubSeq(actions, 1, n - 1))

\* filter_map(opt_to_current_status().transpose()).collect::<Result<Vec<_>>>():
\* every action is mapped; the first error ends the call
RECURSIVE collect_status(_)
collect_status(actions) ==
    IF actions = <<>> THEN Ok(<<>>)
    ELSE LET r == opt_to_current_status(Head(actions))
         IN IF ~r.ok THEN Err(r.err)
            ELSE LET rest == collect_status(Tail(actions))
                 IN IF ~rest.ok THEN rest ELSE Ok(r.v \o rest.v)

reverse(s) == [i \in 1..Len(s) |-> s[Len(s) + 1 - i]]

\* first retain: take most recent GA-related status
RECURSIVE retain_ga(_, _)
retain_ga(status, found_ga) ==
    IF status = <<>> THEN <<>>
    ELSE LET x == Head(status)
         IN IF x \in {GA, FGAN, DGA} /\ found_ga
            THEN retain_ga(Tail(status), found_ga)
            ELSE IF x \in {FFA, FA, GA, FGAN, DGA}
                 THEN <<x>> \o retain_ga(Tail(status), TRUE)
                 ELSE <<x>> \o retain_ga(Tail(status), found_ga)

starts_with_F(s) == Len(s) > 0 /\ s[1] = "F"

\* a second pass that keeps the oldest "featured"-related status
RECURSIVE retain_fa_oldest(_, _)
retain_fa_oldest(status, found_fa) ==
    IF status = <<>> THEN <<>>
    ELSE LET x == Head(status)
         IN IF /\ x # FGAN
               /\ starts_with_F(x)
               /\ \E i \in 2..Len(status) : status[i] # FGAN /\ starts_with_F(status[i])
            THEN retain_fa_oldest(Tail(status), found_fa)
            ELSE <<x>> \o retain_fa_oldest(Tail(status), found_fa)

\* second retain: take most recent "featured"-related status
RECURSIVE retain_fa(_, _)
retain_fa(status, found_fa) ==
    IF status = <<>> THEN <<>>
    ELSE LET x == Head(status)
         IN IF x = FGAN
            THEN <<x>> \o retain_fa(Tail(status), found_fa)
            ELSE IF starts_with_F(x) /\ found_fa
                 THEN retain_fa(Tail(status), found_fa)
                 ELSE IF starts_with_F(x)
                      THEN <<x>> \o retain_fa(Tail(status), TRUE)
                      ELSE <<x>> \o retain_fa(Tail(status), found_fa)

\* most recent action first, joined by '/'
RECURSIVE join_status(_)
join_status(status) ==
    IF status = <<>> THEN <<>>
    ELSE IF Len(status) = 1 THEN Head(status)
    ELSE Head(status) \o Slash \o join_status(Tail(status))

\* str::contains
contains(s, pat) ==
    \E i \in 1..(Len(s) + 1) :
        /\ i + Len(pat) - 1 <= Len(s)
        /\ SubSeq(s, i, i + Len(pat) - 1) = pat

\* a list that also lets the good-article token come first
MultiStatusWhitelist_wide == {FFA \o Slash \o GA, FFAC \o Slash \o GA, GA \o Slash \o FFA}

MultiStatusWhitelist == {FFA \o Slash \o GA, FFAC \o Slash \o GA}

\* the status string computed from the (sorted) actions' tokens
compute_status(tokens) == join_status(retain_fa(retain_ga(reverse(tokens), FALSE), FALSE))

\* the closure of is_some_and: the declared status contradicts the computed one
\* a resolution that accepts every declared status
status_mismatch_never(orig_status, status) == FALSE

status_mismatch(orig_status, status) ==
    /\ orig_status # status
    /\ ~contains(status, Slash \o orig_status)
    /\ ~contains(status, orig_status \o Slash)

\* Result: v is the aggregate after the call (actions are sorted in place before
\* anything can fail; currentstatus is assigned only on success)
sort_and_update_status(a) ==
    LET sorted == [a EXCEPT !.actions = sort_by_key(a.actions)]
        toks == collect_status(sorted.actions)
        status == compute_status(toks.v)
    IN IF ~toks.ok THEN [Err(toks.err) EXCEPT !.v = sorted]
       ELSE IF contains(status, Slash) /\ status \notin MultiStatusWhitelist
       THEN [Err("AmbiguousStatus") EXCEPT !.v = sorted]
       ELSE IF IsSome(a.currentstatus) /\ status_mismatch(Unwrap(a.currentstatus), status)
       THEN [Err("StatusMismatch") EXCEPT !.v = sorted]
       ELSE Ok([sorted EXCEPT !.currentstatus = Some(status)])

----------------------------------------------------------------------------
(* Templates: a name and an ordered list of (key, value) parameters.        *)
(* A parameter name is the text pre ++ num ++ suf, kept in its three parts  *)
(* (the numbered families are parsed by prefix, digits and rest); mark      *)
(* holds the substitution markers pushed at the end of the key.             *)

K(pre, num, suf) == [pre |-> pre, num |-> num, suf |-> suf, mark |-> <<>>]
Plain(name) == K(name, None, "")
Numbered(pre, n) == K(pre, Some(n), "")
Positional(n) == K("", Some(n), "")

T(name, params) == [name |-> <<"Template:", name>>, params |-> params, attached |-> TRUE]

\* to_ascii_lowercase on the chunks of template names
LowerNameChunk(c) ==
    CASE c = "Template:" -> "template:"
      [] c = "Article history" -> "article history"
      [] c = "ArticleHistory" -> "articlehistory"
      [] c = "Article milestones" -> "article milestones"
      [] c = "On this day" -> "on this day"
      [] c = "OnThisDay" -> "onthisday"
      [] c = "DYK talk" -> "dyk talk"
      [] c = "GA" -> "ga"
      [] c = "FailedGA" -> "failedga"
      [] c = "Old peer review" -> "old peer review"
      [] c = "ITN talk" -> "itn talk"
      [] c = "WikiProject banner shell" -> "wikiproject banner shell"
      [] c = "Nobots" -> "nobots"
      [] c = "Bots" -> "bots"
      [] c = "Talk header" -> "talk header"
      [] c = "{{subst:User:0xDeadbeef/newline}}" -> "{{subst:user:0xdeadbeef/newline}}"
      [] OTHER -> c

name_to_ascii_lowercase(s) == [i \in 1..Len(s) |-> LowerNameChunk(s[i])]

\* str::trim_start_matches("Template:"): every leading repetition is removed
RECURSIVE trim_start_matches_template(_)
trim_start_matches_template(name) ==
    IF name # <<>> /\ Head(name) = "Template:"
    THEN trim_start_matches_template(Tail(name))
    ELSE name

template_name(t) == name_to_ascii_lowercase(trim_start_matches_template(t.name))

\* Template::param(name)
param(t, key) ==
    IF \E i \in 1..Len(t.params) : t.params[i][1] = key
    THEN Some(t.params[CHOOSE i \in 1..Len(t.params) : t.params[i][1] = key][2])
    ELSE None

\* a check that knows the nobots block only
check_nobots_by_name(t) == name_to_ascii_lowercase(t.name) = <<"template:", "nobots">>

check_nobots(t) ==
    LET name == name_to_ascii_lowercase(t.name)
    IN \/ name = <<"template:", "nobots">>
       \/ /\ name = <<"template:", "bots">>
          /\ \/ param(t, Plain("allow")) = Some(S("none"))
             \/ param(t, Plain("deny")) = Some(S("all"))
             \/ param(t, Plain("optout")) = Some(S("all"))
             \/ /\ IsSome(param(t, Plain("deny")))
                /\ contains(Unwrap(param(t, Plain("deny"))), S("DeadbeefBot"))

AH_ALIAS == {S("article history"), S("article milestones"), S("articlemilestones"),
             S("articlehistory")}
DYK_ALIAS == {S("dyktalk"), S("dyk talk")}
OLDPR_ALIAS == {S("old peer review"), S("oldpeerreview")}
GA_ALIAS == {S("ga")}
FAILEDGA_ALIAS == {S("failedga"), S("failed ga")}
OTD_ALIAS == {S("on this day"), S("selected anniversary"), S("otdtalk"), S("satalk"),
              S("onthisday")}
ITN_ALIAS == {S("itn talk"), S("itntalk")}

\* Extractor::is_extractable: eq_ignore_ascii_case against every alias
is_extractable(alias, t) ==
    \E x \in alias : name_to_ascii_lowercase(x) = name_to_ascii_lowercase(template_name(t))

----------------------------------------------------------------------------
(* serde: a struct with deny_unknown_fields decoded from string parameters  *)

\* ActionKind::deserialize: the lowercased text is matched against the kinds
LowerKindChunk(c) ==
    CASE c \in {"FAC", "Fac", "fac"} -> "fac"
      [] c \in {"FAR", "far"} -> "far"
      [] c \in {"GAN", "Gan", "gan"} -> "gan"
      [] c \in {"GAR", "gar"} -> "gar"
      [] c \in {"PR", "pr"} -> "pr"
      [] c \in {"FLC", "flc"} -> "flc"
      [] c \in {"FLR", "flr"} -> "flr"
      [] c \in {"FPROC", "fproc"} -> "fproc"
      [] c \in {"FPOR", "fpor"} -> "fpor"
      [] OTHER -> c

ActionKind_deserialize(v) ==
    LET s == IF Len(v) = 1 THEN LowerKindChunk(v[1]) ELSE ""
    IN CASE s = "fac" -> Ok("FAC")
         [] s = "far" -> Ok("FAR")
         [] s = "gan" -> Ok("GAN")
         [] s = "gar" -> Ok("GAR")
         [] s = "pr" -> Ok("PR")
         [] s = "flc" -> Ok("FLC")
         [] s = "flr" -> Ok("FLR")
         [] s = "fproc" -> Ok("FPROC")
         [] s = "fpor" -> Ok("FPOR")
         [] OTHER -> Err("UnknownActionKind")

\* a field: its serde names (rename and aliases), whether it is required and
\* its type
Field(id, names, required, ty) ==
    [id |-> id, names |-> names, required |-> required, ty |-> ty]

FieldOf(schema, key) == {f \in schema : key \in f.names}

\* Deserialize of one field from Value::String; a string never decodes as bool
serde_value(ty, value) ==
    CASE ty = "string" -> Ok(value)
      [] ty = "date" -> try_from_string(value)
      [] ty = "kind" -> ActionKind_deserialize(value)
      [] ty = "bool" -> Err("InvalidType")

\* one parameter after the other: unknown names, repeated fields and
\* undecodable values are errors; then every required field must be there
RECURSIVE serde_fields(_, _, _)
serde_fields(params, schema, acc) ==
    IF params = <<>>
    THEN IF \E f \in schema : f.required /\ IsNone(acc[f.id])
         THEN Err("MissingRequiredField")
         ELSE Ok(acc)
    ELSE LET key == Head(params)[1]
             value == Head(params)[2]
             fs == FieldOf(schema, key)
         IN IF fs = {} THEN Err("UnrecognizedParameter")
            ELSE LET f == CHOOSE x \in fs : TRUE
                     decoded == serde_value(f.ty, value)
                 IN IF IsSome(acc[f.id]) THEN Err("DuplicateParameter")
                    ELSE IF ~decoded.ok THEN Err(decoded.err)
                    ELSE serde_fields(Tail(params), schema,
                                      [acc EXCEPT ![f.id] = Some(decoded.v)])

\* simple_extract / super_extract
simple_extract(t, schema) ==
    serde_fields(t.params, schema, [id \in {f.id : f \in schema} |-> None])

----------------------------------------------------------------------------
(* The extractors of the secondary templates.  A merge returns the new      *)
(* aggregate in v; on an error or a panic v is the aggregate as the merge   *)
(* left it.                                                                 *)

MergeOk(a) == Ok(a)
MergeErr(e, a) == [Err(e) EXCEPT !.v = a]
MergePanic(e, a) == [Panic(e) EXCEPT !.v = a]

\* --- DYK talk
DykSchema ==
    {Field("date", {Positional(1)}, TRUE, "string"),
     Field("two", {Positional(2)}, FALSE, "string"),
     Field("three", {Positional(3)}, FALSE, "string"),
     Field("entry", {Plain("entry")}, FALSE, "string"),
     Field("nompage", {Plain("nompage")}, FALSE, "string"),
     Field("views", {Plain("views")}, FALSE, "string"),
     Field("image", {Plain("image")}, FALSE, "string")}

\* chars().all(|c| c.is_ascii_digit()), true of the empty string
all_ascii_digits(v) == v \in {<<>>, S("2020"), S("2021")}

or(a, b) == IF IsSome(a) THEN a ELSE b

dyk_merge_value_into(value, into) ==
    LET date == Unwrap(value.date)
        picked ==
            IF IsSome(value.two) /\ all_ascii_digits(Unwrap(value.two))
            THEN <<date \o <<" ">> \o Unwrap(value.two), or(value.entry, value.three),
                   value.nompage>>
            ELSE IF IsNone(value.entry) /\ IsSome(value.two)
            THEN <<date, value.two, value.nompage>>
            ELSE <<date, value.entry, value.nompage>>
        parsed == try_from_string(picked[1])
    IN IF ~parsed.ok THEN MergePanic("DateParseFailure", into)
       ELSE MergeOk([into EXCEPT !.dyks = Append(@,
                [date |-> parsed.v, entry |-> picked[2], nom |-> picked[3],
                 ignoreerror |-> FALSE])])

\* --- Old peer review
OldPrSchema ==
    {Field("archive", {Plain("archive")}, FALSE, "string"),
     Field("reviewedname", {Plain("reviewedname")}, FALSE, "string"),
     Field("archivelink", {Plain("archivelink")}, FALSE, "string"),
     Field("id", {Plain("ID")}, FALSE, "string"),
     Field("date", {Plain("date")}, FALSE, "date")}

ReviewedThreshold == 7

\* str::strip_prefix("Talk:")
strip_prefix_talk(t) ==
    IF t # <<>> /\ Head(t) = "Talk:" THEN Some(Tail(t)) ELSE None

\* a merge that takes the day of the run when the block gives no date
oldpr_merge_value_into_guessing(cx, count, answer, value, into) ==
    IF IsNone(count) THEN MergeErr("LookupFailed", into)
    ELSE IF Unwrap(count) < ReviewedThreshold THEN MergeErr("CannotDetermineReviewed", into)
    ELSE MergeOk([into EXCEPT !.actions = Append(@,
            [kind |-> "PR",
             date |-> IF IsSome(value.date) THEN Unwrap(value.date)
                      ELSE try_from_string(S("5 May 2022")).v,
             link |-> value.archivelink, result |-> Some(S("Reviewed")),
             oldid |-> value.id])])

\* count: the edit count the lookup returns (<<>> when the request fails);
\* answer: the line read from stdin (<<>> when stdin is at its end)
oldpr_merge_value_into(cx, count, answer, value, into) ==
    LET stripped == strip_prefix_talk(cx.title)
        link == IF IsSome(value.archivelink) THEN Unwrap(value.archivelink)
                ELSE <<"Wikipedia:Peer review/">>
                     \o (IF IsSome(value.reviewedname) THEN Unwrap(value.reviewedname)
                         ELSE Unwrap(stripped))
                     \o <<"/archive">>
                     \o (IF IsSome(value.archive) THEN Unwrap(value.archive) ELSE S("1"))
        asked == IF IsNone(answer) THEN Err("StdinClosed")
                 ELSE IF Unwrap(answer) = "y" THEN Ok(S("Reviewed"))
                 ELSE IF Unwrap(answer) = "n" THEN Ok(S("Not reviewed"))
                 ELSE Err("UnrecognizedResponse")
        result == IF Unwrap(count) < ReviewedThreshold
                  THEN IF cx.allow_interactive THEN asked
                       ELSE Err("CannotDetermineReviewed")
                  ELSE Ok(S("Reviewed"))
    IN IF IsNone(stripped) THEN MergePanic("TitleNotTalk", into)
       ELSE IF IsNone(count) THEN MergeErr("LookupFailed", into)
       ELSE IF ~result.ok THEN MergeErr(result.err, into)
       ELSE IF IsNone(value.date) THEN MergeErr("NoDate", into)
       ELSE MergeOk([into EXCEPT !.actions = Append(@,
                [kind |-> "PR", date |-> Unwrap(value.date), link |-> Some(link),
                 result |-> Some(result.v), oldid |-> value.id])])

\* --- GA
GaSchema ==
    {Field("date", {Plain("date"), Positional(1)}, FALSE, "date"),
     Field("oldid", {Plain("oldid")}, FALSE, "string"),
     Field("topic", {Plain("topic"), Plain("subtopic")}, FALSE, "string"),
     Field("small", {Plain("small")}, FALSE, "string"),
     Field("page", {Plain("page")}, FALSE, "string")}

\* str::eq_ignore_ascii_case on topics
LowerTopicChunk(c) ==
    CASE c = "History" -> "history"
      [] c = "HISTORY" -> "history"
      [] c = "Music" -> "music"
      [] OTHER -> c

eq_ignore_ascii_case(a, b) ==
    [i \in 1..Len(a) |-> LowerTopicChunk(a[i])] = [i \in 1..Len(b) |-> LowerTopicChunk(b[i])]

ga_merge_value_into(cx, value, into) ==
    LET conflict == /\ IsSome(value.topic) /\ IsSome(into.topic)
                    /\ ~eq_ignore_ascii_case(Unwrap(into.topic), Unwrap(value.topic))
        withTopic == IF IsSome(value.topic) THEN [into EXCEPT !.topic = value.topic]
                     ELSE into
    IN IF conflict THEN MergeErr("TopicConflict", into)
       ELSE IF IsNone(value.page) THEN MergeErr("MissingRequiredField", withTopic)
       ELSE IF IsNone(value.date) THEN MergePanic("MissingRequiredField", withTopic)
       ELSE MergeOk([withTopic EXCEPT !.actions = Append(@,
                [kind |-> "GAN", date |-> Unwrap(value.date),
                 link |-> Some(cx.title \o <<"/GA">> \o Unwrap(value.page)),
                 result |-> Some(S("listed")), oldid |-> value.oldid])])

\* --- FailedGA
FailedGaSchema == GaSchema

failedga_merge_value_into(cx, value, into) ==
    LET conflict == /\ IsSome(value.topic) /\ IsSome(into.topic)
                    /\ Unwrap(into.topic) # Unwrap(value.topic)
        withTopic == IF IsSome(value.topic) THEN [into EXCEPT !.topic = value.topic]
                     ELSE into
    IN IF conflict THEN MergeErr("TopicConflict", into)
       ELSE IF IsNone(value.page) THEN MergeErr("MissingRequiredField", withTopic)
       ELSE IF IsNone(value.date) THEN MergePanic("MissingRequiredField", withTopic)
       ELSE MergeOk([withTopic EXCEPT !.actions = Append(@,
                [kind |-> "GAN", date |-> Unwrap(value.date),
                 link |-> Some(<<"/GA">> \o Unwrap(value.page)),
                 result |-> Some(S("failed")), oldid |-> value.oldid])])

\* --- On this day
\* IndexMap::swap_remove: the entry of the key is taken out of the map
swap_remove(params, key) == SelectSeq(params, LAMBDA p : p[1] # key)

\* the loop of OtdExtractor::extract from index n on; a date without its
\* oldid ends the loop after the date has been taken out of the map
RECURSIVE otd_loop(_, _, _)
otd_loop(params, otds, n) ==
    LET date == param([params |-> params], Numbered("date", n))
        afterDate == swap_remove(params, Numbered("date", n))
        oldid == param([params |-> afterDate], Numbered("oldid", n))
        afterOldid == swap_remove(afterDate, Numbered("oldid", n))
        parsed == try_from_string(Unwrap(date))
    IN IF IsNone(date) THEN Ok(otds) @@ [rest |-> afterDate]
       ELSE IF IsNone(oldid) THEN Ok(otds) @@ [rest |-> afterDate]
       ELSE IF ~parsed.ok THEN Err("DateParseFailure") @@ [rest |-> afterOldid]
       ELSE otd_loop(afterOldid, Append(otds, [date |-> parsed.v, oldid |-> Unwrap(oldid)]),
                     n + 1)

\* a decode that leaves the parameters it did not take unexamined
otd_extract_lenient(t) ==
    LET r == otd_loop(t.params, <<>>, 1)
    IN IF ~r.ok THEN Err(r.err) ELSE Ok(r.v)

otd_extract(t) ==
    LET r == otd_loop(t.params, <<>>, 1)
    IN IF ~r.ok THEN Err(r.err)
       ELSE IF r.rest # <<>> THEN Err("UnrecognizedParameter")
       ELSE Ok(r.v)

otd_merge_value_into(value, into) ==
    MergeOk([into EXCEPT !.otds = @ \o
        [i \in 1..Len(value) |->
            [date |-> value[i].date, oldid |-> Some(value[i].oldid), link |-> None]]])

\* --- ITN talk
\* str::trim().is_empty()
trim_is_empty(v) == v \in {<<>>, S(" ")}

\* chrono format "%Y %B %d" of the instants of strtotime
format_Y_B_d(instant) ==
    CASE instant = 1 -> "2020 January 01"
      [] instant = 2 -> "2021 March 01"
      [] instant = 3 -> "2022 May 05"

itn_link(itn) ==
    IF itn.alt THEN Some(<<"Portal:Current events/", format_Y_B_d(itn.date.date)>>)
    ELSE IF IsSome(itn.oldid) /\ ~trim_is_empty(Unwrap(itn.oldid))
    THEN Some(<<"Special:PermanentLink/">> \o Unwrap(itn.oldid))
    ELSE None

\* flag(params, key): swap_remove(key).map_or(false, |f| !f.trim().is_empty())
itn_flag(params, key) ==
    LET v == param([params |-> params], key)
    IN IsSome(v) /\ ~trim_is_empty(Unwrap(v))

\* takes the first of the keys that is present, each tried key is removed
RECURSIVE itn_loop(_, _, _, _)
itn_loop(params, itns, alt, n) ==
    LET P(ps, k) == param([params |-> ps], k)
        month == P(params, Positional(1))
        p1 == swap_remove(params, Positional(1))
        day == P(p1, Positional(2))
        p2 == IF IsSome(month) THEN swap_remove(p1, Positional(2)) ELSE p1
        viaPos == IF IsSome(month)
                  THEN IF IsSome(day) THEN Some(Unwrap(month) \o <<" ">> \o Unwrap(day))
                       ELSE month
                  ELSE None
        viaDate == IF IsSome(viaPos) THEN viaPos ELSE P(p2, Plain("date"))
        p3 == IF IsSome(viaPos) THEN p2 ELSE swap_remove(p2, Plain("date"))
        viaDate1 == IF IsSome(viaDate) THEN viaDate ELSE P(p3, Numbered("date", 1))
        p4 == IF IsSome(viaDate) THEN p3 ELSE swap_remove(p3, Numbered("date", 1))
        date == IF n = 1 THEN viaDate1 ELSE P(params, Numbered("date", n))
        afterDate == IF n = 1 THEN p4 ELSE swap_remove(params, Numbered("date", n))
        plainOldid == IF n = 1 THEN P(afterDate, Plain("oldid")) ELSE None
        p5 == IF n = 1 THEN swap_remove(afterDate, Plain("oldid")) ELSE afterDate
        oldid == IF IsSome(plainOldid) THEN plainOldid ELSE P(p5, Numbered("oldid", n))
        p6 == IF IsSome(plainOldid) THEN p5 ELSE swap_remove(p5, Numbered("oldid", n))
        altn == alt \/ itn_flag(p6, Numbered("alt", n))
        p7 == IF alt THEN p6 ELSE swap_remove(p6, Numbered("alt", n))
        parsed == try_from_string(Unwrap(date))
    IN IF IsNone(date) THEN Ok(itns) @@ [rest |-> afterDate]
       ELSE IF ~parsed.ok THEN Err("DateParseFailure") @@ [rest |-> p7]
       ELSE itn_loop(p7, Append(itns, [date |-> parsed.v, oldid |-> oldid, alt |-> altn]),
                     alt, n + 1)

itn_extract(t) ==
    LET alt == itn_flag(t.params, Plain("alt"))
        r == itn_loop(swap_remove(t.params, Plain("alt")), <<>>, alt, 1)
    IN IF ~r.ok THEN Err(r.err)
       ELSE IF r.rest # <<>> THEN Err("UnrecognizedParameter")
       ELSE Ok(r.v)

itn_merge_value_into(value, into) ==
    MergeOk([into EXCEPT !.itns = @ \o
        [i \in 1..Len(value) |-> [date |-> value[i].date, link |-> itn_link(value[i])]]])

----------------------------------------------------------------------------
(* extract_all: the first extractor whose alias matches decodes the block,  *)
(* merges it and detaches it.  env holds what the collaborators answer: the *)
(* edit count of the review page and the line read from stdin.              *)

ExtractorOf(t) ==
    IF is_extractable(DYK_ALIAS, t) THEN "dyk"
    ELSE IF is_extractable(OLDPR_ALIAS, t) THEN "oldpr"
    ELSE IF is_extractable(GA_ALIAS, t) THEN "ga"
    ELSE IF is_extractable(FAILEDGA_ALIAS, t) THEN "failedga"
    ELSE IF is_extractable(OTD_ALIAS, t) THEN "otd"
    ELSE IF is_extractable(ITN_ALIAS, t) THEN "itn"
    ELSE "none"

extract(e, t) ==
    CASE e = "dyk" -> simple_extract(t, DykSchema)
      [] e = "oldpr" -> simple_extract(t, OldPrSchema)
      [] e = "ga" -> simple_extract(t, GaSchema)
      [] e = "failedga" -> simple_extract(t, FailedGaSchema)
      [] e = "otd" -> otd_extract(t)
      [] e = "itn" -> itn_extract(t)

merge_value_into(e, cx, env, value, into) ==
    CASE e = "dyk" -> dyk_merge_value_into(value, into)
      [] e = "oldpr" -> oldpr_merge_value_into(cx, env.count, env.answer, value, into)
      [] e = "ga" -> ga_merge_value_into(cx, value, into)
      [] e = "failedga" -> failedga_merge_value_into(cx, value, into)
      [] e = "otd" -> otd_merge_value_into(value, into)
      [] e = "itn" -> itn_merge_value_into(value, into)

\* a fold that logs a failed block and goes on
extract_all_skipping_failures(cx, env, t, into) ==
    LET e == ExtractorOf(t)
        val == extract(e, t)
        merged == merge_value_into(e, cx, env, val.v, into)
    IN IF e = "none" \/ ~val.ok \/ ~merged.ok THEN Ok(into) @@ [detached |-> FALSE]
       ELSE merged @@ [detached |-> TRUE]

\* a dispatch that merges the block and leaves it in the document
extract_all_keeping_block(cx, env, t, into) ==
    LET e == ExtractorOf(t)
        val == extract(e, t)
        merged == merge_value_into(e, cx, env, val.v, into)
    IN IF e = "none" THEN Ok(into) @@ [detached |-> FALSE]
       ELSE IF ~val.ok THEN MergeErr(val.err, into) @@ [detached |-> FALSE]
       ELSE merged @@ [detached |-> FALSE]

\* the result carries the aggregate as the call left it and whether the
\* block was detached
extract_all(cx, env, t, into) ==
    CHOOSE r \in
        {IF e = "none" THEN Ok(into) @@ [detached |-> FALSE]
         ELSE CHOOSE r2 \in
                {IF ~val.ok THEN MergeErr(val.err, into) @@ [detached |-> FALSE]
                 ELSE CHOOSE r3 \in
                        {merged @@ [detached |-> merged.ok]
                         : merged \in {merge_value_into(e, cx, env, val.v, into)}} : TRUE
                 : val \in {extract(e, t)}} : TRUE
         : e \in {ExtractorOf(t)}} : TRUE

----------------------------------------------------------------------------
(* ArticleHistoryExtractor::extract: the numbered families are grouped by   *)
(* index, an index without digits is 0; the lists are read from index 1 on  *)
(* until the first missing index, and for every family but the actions      *)
(* index 1 is looked up as 0.                                               *)

Families == {"action", "ft", "dyk", "otd", "itn"}

NumOf(key) == IF IsNone(key.num) THEN 0 ELSE Unwrap(key.num)

\* the entry of (family, index): its rest-of-name keys and values
EntryOf(params, fam, n) ==
    LET own == SelectSeq(params, LAMBDA p : p[1].pre = fam /\ NumOf(p[1]) = n)
    IN [i \in 1..Len(own) |-> <<own[i][1].suf, own[i][2]>>]

\* insert(key, param).is_some(): two names of one family with the same index
\* and the same rest
HasDuplicate(params) ==
    \E i, j \in 1..Len(params) :
        /\ i < j
        /\ params[i][1].pre \in Families
        /\ params[i][1].pre = params[j][1].pre
        /\ NumOf(params[i][1]) = NumOf(params[j][1])
        /\ params[i][1].suf = params[j][1].suf

ActionSchema ==
    {Field("kind", {""}, TRUE, "kind"), Field("date", {"date"}, TRUE, "date"),
     Field("link", {"link"}, FALSE, "string"), Field("result", {"result"}, FALSE, "string"),
     Field("oldid", {"oldid"}, FALSE, "string")}
AhDykSchema ==
    {Field("date", {"date"}, TRUE, "date"), Field("entry", {"entry"}, FALSE, "string"),
     Field("nom", {"nom"}, FALSE, "string"),
     Field("ignoreerror", {"ignoreerror"}, FALSE, "bool")}
AhItnSchema ==
    {Field("date", {"date"}, TRUE, "date"), Field("link", {"link"}, FALSE, "string")}
AhOtdSchema ==
    {Field("date", {"date"}, TRUE, "date"), Field("oldid", {"oldid"}, FALSE, "string"),
     Field("link", {"link"}, FALSE, "string")}
FeaturedTopicSchema ==
    {Field("name", {"name"}, TRUE, "string"), Field("main", {"main"}, FALSE, "bool")}
ArticleHistorySchema ==
    {Field("currentstatus", {Plain("currentstatus")}, FALSE, "string"),
     Field("maindate", {Plain("maindate")}, FALSE, "date"),
     Field("maindate2", {Plain("maindate2")}, FALSE, "date"),
     Field("four", {Plain("four")}, FALSE, "bool"),
     Field("topic", {Plain("topic")}, FALSE, "string"),
     Field("collapse", {Plain("collapse")}, FALSE, "bool"),
     Field("small", {Plain("small")}, FALSE, "bool")}

\* a struct without deny_unknown_fields: names outside the schema are skipped
serde_lenient(entry, schema) ==
    serde_fields(SelectSeq(entry, LAMBDA p : FieldOf(schema, p[1]) # {}), schema,
                 [id \in {f.id : f \in schema} |-> None])

\* Option fields stay options; required fields and #[serde(default)] flags
\* are unwrapped
Plainly(schema, rec) ==
    [id \in DOMAIN rec |->
        LET f == CHOOSE x \in schema : x.id = id
        IN IF f.ty = "bool" THEN (IF IsSome(rec[id]) THEN Unwrap(rec[id]) ELSE FALSE)
           ELSE IF f.required THEN Unwrap(rec[id])
           ELSE rec[id]]

RECURSIVE family_values(_, _, _, _, _, _)
family_values(params, fam, start, schema, i, acc) ==
    LET n == IF i = 1 /\ start = 0 THEN 0 ELSE i
        entry == EntryOf(params, fam, n)
        decoded == serde_lenient(entry, schema)
    IN IF entry = <<>> THEN Ok(acc)
       ELSE IF ~decoded.ok THEN Err(decoded.err)
       ELSE family_values(params, fam, start, schema, i + 1,
                          Append(acc, Plainly(schema, decoded.v)))

\* the decoded groups in the order the struct lists them: actions, featured
\* topics, dyks, otds, itns, then the flattened scalar fields
ah_parts(ps) ==
    <<family_values(ps, "action", 1, ActionSchema, 1, <<>>),
      family_values(ps, "ft", 0, FeaturedTopicSchema, 1, <<>>),
      family_values(ps, "dyk", 0, AhDykSchema, 1, <<>>),
      family_values(ps, "otd", 0, AhOtdSchema, 1, <<>>),
      family_values(ps, "itn", 0, AhItnSchema, 1, <<>>),
      serde_fields(SelectSeq(ps, LAMBDA p : p[1].pre \notin Families),
                   ArticleHistorySchema,
                   [id \in {f.id : f \in ArticleHistorySchema} |-> None])>>

ah_assemble(parts) ==
    LET failed == {i \in 1..Len(parts) : ~parts[i].ok}
    IN IF failed # {}
       THEN Err(parts[CHOOSE i \in failed : \A j \in failed : i <= j].err)
       ELSE CHOOSE r \in
              {Ok([actions |-> parts[1].v, currentstatus |-> flags.currentstatus,
                   maindate |-> flags.maindate, maindate2 |-> flags.maindate2,
                   itns |-> parts[5].v, dyks |-> parts[3].v, otds |-> parts[4].v,
                   four |-> flags.four, featured_topics |-> parts[2].v,
                   topic |-> flags.topic, collapse |-> flags.collapse,
                   small |-> flags.small])
               : flags \in {Plainly(ArticleHistorySchema, parts[6].v)}} : TRUE

ah_extract(t) ==
    IF HasDuplicate(t.params) THEN Err("DuplicateParameter")
    ELSE CHOOSE r \in {ah_assemble(parts) : parts \in {ah_parts(t.params)}} : TRUE

----------------------------------------------------------------------------
(* ParamBuilder and the serializer                                          *)

SubstNull == "{{subst:null}}"
SubstNewline == "{{subst:User:0xDeadbeef/newline}}"

\* IndexMap::insert: the value of a present key is replaced in place
insert(params, key, value) ==
    CHOOSE r \in
        {IF \E i \in 1..Len(ps) : ps[i][1] = key
         THEN [i \in 1..Len(ps) |-> IF ps[i][1] = key THEN <<key, value>> ELSE ps[i]]
         ELSE Append(ps, <<key, value>>) : ps \in {params}} : TRUE

add(params, key, value) == insert(params, [key EXCEPT !.mark = @ \o <<SubstNull>>], value)
addnl(params, key, value) == add(params, key, value \o <<SubstNewline>>)
addnl_opt(params, key, value) ==
    IF IsSome(value) THEN addnl(params, key, Unwrap(value)) ELSE params
add_opt(params, key, value) ==
    IF IsSome(value) THEN add(params, key, Unwrap(value)) ELSE params
addnl_flag(params, key, flag) == IF flag THEN addnl(params, key, S("yes")) ELSE params
add_flag(params, key, flag) == IF flag THEN add(params, key, S("yes")) ELSE params
newline(params) ==
    CHOOSE r \in
        {[ps EXCEPT ![Len(ps)] = <<@[1], @[2] \o <<SubstNewline>>>>] : ps \in {params}} : TRUE

\* format!("{i}") of the families that leave index 1 without a number
Unsuffixed(i) == IF i = 1 THEN None ELSE Some(i)

action_add_to_params(a, i, params) ==
    LET p1 == addnl(params, K("action", Some(i), ""), S(a.kind))
        p2 == addnl(p1, K("action", Some(i), "date"), a.date.orig)
        p3 == addnl_opt(p2, K("action", Some(i), "link"), a.link)
        p4 == addnl_opt(p3, K("action", Some(i), "result"), a.result)
        p5 == addnl_opt(p4, K("action", Some(i), "oldid"), a.oldid)
    IN newline(p5)

dyk_add_to_params(d, i, params) ==
    LET p1 == add(params, K("dyk", Unsuffixed(i), "date"), d.date.orig)
        p2 == add_opt(p1, K("dyk", Unsuffixed(i), "entry"), d.entry)
        p3 == add_opt(p2, K("dyk", Unsuffixed(i), "nom"), d.nom)
        p4 == add_flag(p3, K("dyk", Unsuffixed(i), "ignoreerror"), d.ignoreerror)
    IN newline(p4)

itn_add_to_params(x, i, params) ==
    LET p1 == add(params, K("itn", Some(i), "date"), x.date.orig)
        p2 == add_opt(p1, K("itn", Some(i), "link"), x.link)
    IN newline(p2)

otd_add_to_params(x, i, params) ==
    LET p1 == add(params, K("otd", Some(i), "date"), x.date.orig)
        p2 == add_opt(p1, K("otd", Some(i), "oldid"), x.oldid)
        p3 == add_opt(p2, K("otd", Some(i), "link"), x.link)
    IN newline(p3)

ft_add_to_params(x, i, params) ==
    LET p1 == addnl(params, K("ft", Unsuffixed(i), "name"), x.name)
    IN addnl_flag(p1, K("ft", Unsuffixed(i), "main"), x.main)

add_to_params(ty, x, i, params) ==
    CASE ty = "action" -> action_add_to_params(x, i, params)
      [] ty = "dyk" -> dyk_add_to_params(x, i, params)
      [] ty = "itn" -> itn_add_to_params(x, i, params)
      [] ty = "otd" -> otd_add_to_params(x, i, params)
      [] ty = "ft" -> ft_add_to_params(x, i, params)

RECURSIVE add_all_from(_, _, _, _)
add_all_from(ty, xs, i, params) ==
    IF i > Len(xs) THEN params
    ELSE add_all_from(ty, xs, i + 1, add_to_params(ty, xs[i], i, params))

add_all(ty, xs, params) == add_all_from(ty, xs, 1, params)

OrigOf(d) == IF IsSome(d) THEN Some(Unwrap(d).orig) ELSE None

\* a serializer that writes the status before the actions
build_params_status_first(a) ==
    LET p1 == addnl_opt(<<>>, Plain("currentstatus"), a.currentstatus)
        p2 == add_all("action", a.actions, p1)
        p3 == addnl_opt(p2, Plain("maindate"), OrigOf(a.maindate))
        p4 == addnl_opt(p3, Plain("maindate2"), OrigOf(a.maindate2))
        p5 == add_all("itn", a.itns, p4)
        p6 == add_all("dyk", a.dyks, p5)
        p7 == add_all("otd", a.otds, p6)
        p8 == addnl_flag(p7, Plain("four"), a.four)
        p9 == add_all("ft", a.featured_topics, p8)
        p10 == addnl_opt(p9, Plain("topic"), a.topic)
        p11 == addnl_flag(p10, Plain("collapse"), a.collapse)
    IN addnl_flag(p11, Plain("small"), a.small)

\* the parameters into_template writes for a resolved aggregate
build_params(a) ==
    LET p1 == add_all("action", a.actions, <<>>)
        p2 == addnl_opt(p1, Plain("currentstatus"), a.currentstatus)
        p3 == addnl_opt(p2, Plain("maindate"), OrigOf(a.maindate))
        p4 == addnl_opt(p3, Plain("maindate2"), OrigOf(a.maindate2))
        p5 == add_all("itn", a.itns, p4)
        p6 == add_all("dyk", a.dyks, p5)
        p7 == add_all("otd", a.otds, p6)
        p8 == addnl_flag(p7, Plain("four"), a.four)
        p9 == add_all("ft", a.featured_topics, p8)
        p10 == addnl_opt(p9, Plain("topic"), a.topic)
        p11 == addnl_flag(p10, Plain("collapse"), a.collapse)
    IN addnl_flag(p11, Plain("small"), a.small)

\* v is the aggregate as resolution left it, params what set_params received
into_template(a, t) ==
    CHOOSE x \in
        {IF ~r.ok THEN r @@ [t |-> t]
         ELSE r @@ [t |-> [t EXCEPT !.params = build_params(r.v)]]
         : r \in {sort_and_update_status(a)}} : TRUE

----------------------------------------------------------------------------
(* The aggregate and the inputs the status-resolution driver draws          *)

EmptyAH ==
    [actions |-> <<>>, currentstatus |-> None, maindate |-> None,
     maindate2 |-> None, itns |-> <<>>, dyks |-> <<>>, otds |-> <<>>,
     four |-> FALSE, featured_topics |-> <<>>, topic |-> None,
     collapse |-> FALSE, small |-> FALSE]

Date(text) == try_from_string(S(text)).v

MkAction(kind, result, date) ==
    [kind |-> kind, date |-> date, link |-> None, result |-> result, oldid |-> None]

ReviewKinds == {"FAC", "FAR", "FLC", "FLR", "FPROC", "FPOR", "GAN", "GAR"}

\* (kind, result) pairs: every token of the GA and FA tracks, a kind without
\* token, a result outside the rule table and an absent result
KindResults ==
    {<<"FAC", Some(S("promoted"))>>, <<"FAC", Some(S("Failed"))>>,
     <<"FAR", Some(S("removed"))>>, <<"GAN", Some(S("Listed"))>>,
     <<"GAN", Some(S("not listed"))>>, <<"GAR", Some(S("delisted"))>>,
     <<"PR", Some(S("Reviewed"))>>, <<"FAC", Some(S("bogus"))>>, <<"GAR", None>>}

\* for every reviewing kind an absent result and a result outside the rule
\* table, next to two actions that resolve
UnknownKindResults ==
    {<<k, r>> : k \in ReviewKinds, r \in {None, Some(S("bogus"))}}
    \cup {<<"GAN", Some(S("Listed"))>>, <<"PR", Some(S("Reviewed"))>>}

ActionsOf(pairs, dates) ==
    {MkAction(kr[1], kr[2], Date(d)) : kr \in pairs, d \in dates}

ThreeDates == {"January 1, 2020", "1 March 2021", "5 May 2022"}
TwoDates == {"January 1, 2020", "1 March 2021"}

StatusPool ==
    {None, Some(<<>>), Some(GA), Some(FFA), Some(FFAC), Some(<<"G">>),
     Some(FFAC \o Slash \o GA)}

ResolveInputs ==
    {[EmptyAH EXCEPT !.actions = acts, !.currentstatus = cs] :
        acts \in SeqsUpTo(ActionsOf(KindResults, ThreeDates), MaxActions), cs \in StatusPool}

UnknownInputs ==
    {[EmptyAH EXCEPT !.actions = acts, !.currentstatus = cs] :
        acts \in SeqsUpTo(ActionsOf(UnknownKindResults, TwoDates), MaxActions),
        cs \in {None, Some(GA)}}

----------------------------------------------------------------------------
(* Driver of sort_and_update_status on drawn aggregates                     *)

InitResolve ==
    /\ pc = "resolve"
    /\ \/ ah \in {Some(a) : a \in ResolveInputs}
       \/ ah \in {Some(a) : a \in UnknownInputs}
    /\ input = None
    /\ title = <<"Talk:", "Ebla">>
    /\ prompt = FALSE
    /\ interactive = FALSE
    /\ templates = <<>>
    /\ created = None
    /\ target = 0
    /\ idx = 0
    /\ outcome = ""
    /\ edits = 0
    /\ page = 1

CallSortAndUpdateStatus ==
    /\ pc = "resolve"
    /\ LET r == sort_and_update_status(Unwrap(ah))
       IN /\ ah' = Some(r.v)
          /\ outcome' = IF r.ok THEN "ok" ELSE r.err
    /\ input' = ah
    /\ pc' = "resolved"
    /\ UNCHANGED <<title, prompt, interactive, templates, created, target, idx, edits, page>>

NextResolve == CallSortAndUpdateStatus

SpecResolve == InitResolve /\ [][NextResolve]_vars

----------------------------------------------------------------------------
(* The blocks of the talk pages treat is run on                             *)

D2020 == S("January 1, 2020")
D2021 == S("1 March 2021")

AhEmpty == T("Article history", <<>>)
AhDeclaredGaDelistedFa ==
    T("Article history",
      << <<K("action", Some(1), ""), S("FAR")>>, <<K("action", Some(1), "date"), D2020>>,
         <<K("action", Some(1), "result"), S("removed")>>,
         <<Plain("currentstatus"), GA>> >>)
AhCanonical ==
    T("ArticleHistory",
      << <<K("action", Some(1), ""), S("GAN")>>, <<K("action", Some(1), "date"), D2020>>,
         <<K("action", Some(1), "result"), S("listed")>>,
         <<Plain("currentstatus"), GA>> >>)
AhWithOtd ==
    T("Article history",
      << <<K("action", Some(1), ""), S("GAN")>>, <<K("action", Some(1), "date"), D2020>>,
         <<K("action", Some(1), "result"), S("listed")>>,
         <<Plain("currentstatus"), GA>>,
         <<K("otd", None, "date"), D2021>>, <<K("otd", None, "oldid"), S("777")>> >>)
AhSmall ==
    T("Article history", << <<Plain("currentstatus"), GA>>, <<Plain("small"), S("yes")>> >>)
AhUnknown == T("Article milestones", << <<Plain("bogus"), S("x")>> >>)
\* two actions of one instant written in two ways
AhTwoTexts ==
    T("Article history",
      << <<K("action", Some(1), ""), S("GAN")>>, <<K("action", Some(1), "date"), D2020>>,
         <<K("action", Some(1), "result"), S("listed")>>,
         <<K("action", Some(2), ""), S("PR")>>,
         <<K("action", Some(2), "date"), S("2020-01-01")>> >>)
\* a record after an index gap, a sub-key no record has and a first "on this
\* day" record that carries its index
AhGap ==
    T("Article history",
      << <<K("action", Some(1), ""), S("GAN")>>, <<K("action", Some(1), "date"), D2020>>,
         <<K("action", Some(1), "result"), S("listed")>>,
         <<K("action", Some(1), "foo"), S("x")>>,
         <<K("action", Some(3), ""), S("PR")>>, <<K("action", Some(3), "date"), D2021>>,
         <<K("otd", Some(1), "date"), D2021>> >>)
\* an aggregate block under another alias, met after the first one
AhSecond ==
    T("Article milestones",
      << <<K("action", Some(1), ""), S("FAC")>>, <<K("action", Some(1), "date"), D2021>>,
         <<K("action", Some(1), "result"), S("promoted")>> >>)
Banner == T("WikiProject banner shell", <<>>)
TalkHeader == T("Talk header", <<>>)

OtdOk ==
    T("On this day", << <<Numbered("date", 1), D2020>>, <<Numbered("oldid", 1), S("12345")>> >>)
OtdUnknown ==
    T("OnThisDay", << <<Numbered("date", 1), D2020>>, <<Numbered("oldid", 1), S("12345")>>,
                      <<Plain("bogus"), S("x")>> >>)
OtdNoOldid ==
    T("On this day", << <<Numbered("date", 1), D2020>>, <<Numbered("oldid", 1), S("12345")>>,
                        <<Numbered("date", 2), D2021>> >>)
DykOk == T("DYK talk", << <<Positional(1), S("January 1")>>, <<Positional(2), S("2020")>>,
                          <<Plain("entry"), S("hook")>> >>)
DykUnknown == T("DYK talk", << <<Positional(1), D2020>>, <<Plain("bogus"), S("x")>> >>)
GaOk == T("GA", << <<Positional(1), D2021>>, <<Plain("page"), S("1")>>,
                   <<Plain("topic"), S("History")>> >>)
GaUnknown == T("GA", << <<Positional(1), D2021>>, <<Plain("page"), S("1")>>,
                        <<Plain("bogus"), S("x")>> >>)
GaNoDate == T("GA", << <<Plain("page"), S("1")>> >>)
\* a topic and no page
GaNoPage == T("GA", << <<Positional(1), D2021>>, <<Plain("topic"), S("History")>> >>)
FailedGaOk == T("FailedGA", << <<Plain("date"), D2020>>, <<Plain("page"), S("1")>>,
                               <<Plain("topic"), S("history")>> >>)
FailedGaUnknown == T("FailedGA", << <<Plain("date"), D2020>>, <<Plain("page"), S("1")>>,
                                    <<Plain("bogus"), S("x")>> >>)
FailedGaNoPage == T("Failed GA", << <<Plain("date"), D2020>>, <<Plain("topic"), S("Music")>> >>)
OldPrOk == T("Old peer review", << <<Plain("date"), D2020>>, <<Plain("archive"), S("2")>> >>)
OldPrNoDate == T("Old peer review", << <<Plain("archive"), S("2")>> >>)
OldPrUnknown == T("Old peer review", << <<Plain("date"), D2020>>, <<Plain("bogus"), S("x")>> >>)
ItnOk == T("ITN talk", << <<Plain("date"), D2021>>, <<Plain("oldid"), S("555")>> >>)
ItnUnknown == T("ITN talk", << <<Plain("date"), D2021>>, <<Plain("bogus"), S("x")>> >>)

Nobots == T("Nobots", <<>>)
BotsAllowNone == T("Bots", << <<Plain("allow"), S("none")>> >>)
BotsDenyAll == T("Bots", << <<Plain("deny"), S("all")>> >>)
BotsOptoutAll == T("Bots", << <<Plain("optout"), S("all")>> >>)
BotsDenyUs == T("Bots", << <<Plain("deny"), <<"SineBot,", "DeadbeefBot">>>> >>)
BotsAllowAll == T("Bots", << <<Plain("allow"), S("all")>> >>)

\* the blocks an aggregate can be read from or mounted next to
Anchors ==
    {AhEmpty, AhDeclaredGaDelistedFa, AhCanonical, AhWithOtd, AhSmall, AhUnknown,
     AhTwoTexts, AhGap, Banner}

Secondary ==
    {TalkHeader, Banner, AhSecond, OtdOk, OtdUnknown, OtdNoOldid, DykOk, DykUnknown, GaOk, GaUnknown, GaNoDate, GaNoPage,
     FailedGaOk, FailedGaUnknown, FailedGaNoPage, OldPrOk, OldPrNoDate, OldPrUnknown, ItnOk, ItnUnknown, Nobots, BotsAllowNone,
     BotsDenyAll, BotsOptoutAll, BotsDenyUs, BotsAllowAll}

\* a page: at most one anchor block, then up to MaxBlocks other blocks
Documents ==
    {head \o body : head \in {<<>>} \cup {<<a>> : a \in Anchors},
                    body \in SeqsUpTo(Secondary, MaxBlocks)}

\* what the collaborators may answer during one extract_all
Environments ==
    {[count |-> c, answer |-> a] :
        c \in {None, Some(3), Some(6), Some(7), Some(12)}, a \in {None, Some("y"), Some("n"), Some("q")}}

\* only the peer-review merge asks the collaborators
EnvironmentsOf(t) ==
    IF ExtractorOf(t) = "oldpr" THEN Environments
    ELSE {[count |-> None, answer |-> None]}

----------------------------------------------------------------------------
(* treat: one page from the fetched document to the edit                    *)

Init ==
    /\ pc = "locate"
    /\ templates \in Documents
    /\ input = templates
    /\ title = <<"Talk:", "Ebla">>
    /\ prompt \in BOOLEAN
    /\ interactive \in BOOLEAN
    /\ ah = None
    /\ created = None
    /\ target = 0
    /\ idx = 0
    /\ outcome = ""
    /\ edits = 0
    /\ page = 1

\* Iterator::find over the outcomes of the predicate: the position of the
\* first template it holds of, 0 if there is none
find(hits) ==
    IF \E i \in 1..Len(hits) : hits[i]
    THEN CHOOSE i \in 1..Len(hits) : hits[i] /\ \A j \in 1..(i - 1) : ~hits[j]
    ELSE 0

IsArticleHistory(t) == template_name(t) \in AH_ALIAS
\* a search for the anchor that takes any block
IsBannerShell_any(t) == TRUE
IsBannerShell(t) == template_name(t) = S("wikiproject banner shell")

AhName == <<"Article history", SubstNewline>>

\* the template the aggregate is read from and written to
article_history == IF target = 0 THEN Unwrap(created) ELSE templates[target]

Locate ==
    /\ pc = "locate"
    /\ LET found == find([i \in 1..Len(templates) |-> IsArticleHistory(templates[i])])
           banner == find([i \in 1..Len(templates) |-> IsBannerShell(templates[i])])
       IN IF found # 0
          THEN /\ templates' = [templates EXCEPT ![found].name = AhName]
               /\ target' = found
               /\ created' = created
               /\ pc' = "extract"
               /\ outcome' = outcome
          ELSE IF banner # 0
          THEN /\ created' = Some([name |-> AhName, params |-> <<>>, attached |-> TRUE,
                                    before |-> banner])
               /\ target' = 0
               /\ templates' = templates
               /\ pc' = "extract"
               /\ outcome' = outcome
          ELSE /\ pc' = "done"
               /\ outcome' = "NoAnchor"
               /\ UNCHANGED <<templates, target, created>>
    /\ UNCHANGED <<title, prompt, interactive, ah, input, idx, edits, page>>

Extract ==
    /\ pc = "extract"
    /\ \E r \in {ah_extract(article_history)} :
          IF r.ok
          THEN /\ ah' = Some(r.v)
               /\ idx' = 1
               /\ pc' = "fold"
               /\ outcome' = outcome
          ELSE /\ pc' = "done"
               /\ outcome' = r.err
               /\ UNCHANGED <<ah, idx>>
    /\ UNCHANGED <<title, prompt, interactive, templates, created, target, input, edits, page>>

\* one turn of the loop over the templates of the page
Fold ==
    /\ pc = "fold"
    /\ idx <= Len(templates)
    /\ \E env \in EnvironmentsOf(templates[idx]) :
        \E r \in {extract_all([title |-> title, allow_interactive |-> interactive],
                              env, templates[idx], Unwrap(ah))} :
           IF check_nobots(templates[idx])
           THEN /\ pc' = "done"
                /\ outcome' = "BotExcluded"
                /\ UNCHANGED <<ah, templates, idx>>
           ELSE IF r.ok
           THEN /\ ah' = Some(r.v)
                /\ templates' = [templates EXCEPT ![idx].attached = @ /\ ~r.detached]
                /\ idx' = idx + 1
                /\ UNCHANGED <<pc, outcome>>
           ELSE /\ ah' = Some(r.v)
                /\ pc' = "done"
                /\ outcome' = IF r.panic THEN "Panic" ELSE r.err
                /\ UNCHANGED <<templates, idx>>
    /\ UNCHANGED <<title, prompt, interactive, created, target, input, edits, page>>

\* ah.into_template(article_history): resolution, then the parameters are set
IntoTemplate ==
    /\ pc = "fold"
    /\ idx > Len(templates)
    /\ \E r \in {into_template(Unwrap(ah), article_history)} :
          /\ ah' = Some(r.v)
          /\ IF r.ok
             THEN /\ pc' = "submit"
                  /\ outcome' = outcome
                  /\ IF target = 0
                     THEN created' = Some(r.t) /\ templates' = templates
                     ELSE templates' = [templates EXCEPT ![target] = r.t] /\ created' = created
             ELSE /\ pc' = "done"
                  /\ outcome' = r.err
                  /\ UNCHANGED <<templates, created>>
    /\ UNCHANGED <<title, prompt, interactive, target, input, idx, edits, page>>

\* the edit: asked for on stdin when prompt is set, sent otherwise
Submit ==
    /\ pc = "submit"
    /\ pc' = "done"
    /\ IF prompt
       THEN \E answer \in {None, Some("y"), Some("n"), Some("q"), Some("quit")} :
               IF answer = Some("y") THEN edits' = edits + 1 /\ outcome' = "ok"
               ELSE IF answer \in {Some("q"), Some("quit")}
               THEN edits' = edits /\ outcome' = "exit"
               ELSE IF answer = None THEN edits' = edits /\ outcome' = "Panic"
               ELSE edits' = edits /\ outcome' = "ok"
       ELSE edits' = edits + 1 /\ outcome' = "ok"
    /\ UNCHANGED <<title, prompt, interactive, templates, created, target, ah, input, idx,
                   page>>

\* the pages main may find after the first one
LaterPages == {<<AhEmpty, OtdOk>>, <<AhCanonical, GaUnknown>>, <<Banner, Nobots>>}

\* main: `treat(...).await?` inside the loop over the pages.  An Err of treat
\* is returned by main, a panic and process::exit end the process, Ok(())
\* goes on to the next page
MainLoop ==
    /\ pc = "done"
    /\ IF outcome = "Panic" THEN pc' = "panicked" /\ UNCHANGED <<templates, input, page>>
       ELSE IF outcome = "exit" THEN pc' = "exited" /\ UNCHANGED <<templates, input, page>>
       ELSE IF outcome \notin {"ok", "NoAnchor", "BotExcluded"}
       THEN pc' = "failed" /\ UNCHANGED <<templates, input, page>>
       ELSE IF page = MaxPages THEN pc' = "finished" /\ UNCHANGED <<templates, input, page>>
       ELSE /\ pc' = "locate"
            /\ page' = page + 1
            /\ templates' \in LaterPages
            /\ input' = templates'
    /\ ah' = None
    /\ created' = None
    /\ target' = 0
    /\ idx' = 0
    /\ outcome' = ""
    /\ edits' = 0
    /\ UNCHANGED <<title, prompt, interactive>>

Next == Locate \/ Extract \/ Fold \/ IntoTemplate \/ Submit \/ MainLoop

Spec == Init /\ [][Next]_vars

----------------------------------------------------------------------------
(* Claims about status resolution (checked under SpecResolve)               *)

Resolved == pc = "resolved"
In == Unwrap(input)
Out == Unwrap(ah)

\* the tokens of the input's actions in date order, most recent first
TokensMostRecentFirst == reverse(collect_status(sort_by_key(In.actions)).v)
AllActionsResolve == collect_status(In.actions).ok

\* the tokens that survive the two retain passes, most recent first
Surviving == retain_fa(retain_ga(TokensMostRecentFirst, FALSE), FALSE)

\* C3: tokens [FFA, GA] (most recent first) resolve to "FFA/GA", and tokens
\* [FFA, FGAN] fail with AmbiguousStatus.
C3_MultiStatusWhitelist ==
    (Resolved /\ AllActionsResolve) =>
        /\ (TokensMostRecentFirst = <<FFA, GA>> /\ IsNone(In.currentstatus))
              => (outcome = "ok" /\ Out.currentstatus = Some(FFA \o Slash \o GA))
        /\ (TokensMostRecentFirst = <<FFA, FGAN>>)
              => outcome = "AmbiguousStatus"

Bijections(n) == {f \in [1..n -> 1..n] : \A i, j \in 1..n : i # j => f[i] # f[j]}
Orderings(s) == {[i \in 1..Len(s) |-> s[f[i]]] : f \in Bijections(Len(s))}

\* what a caller observes of one call: the error, or the status it assigned
Observed(r) == IF r.ok THEN <<"ok", r.v.currentstatus>> ELSE <<"failed", None>>
ObservedNow == IF outcome = "ok" THEN <<"ok", Out.currentstatus>> ELSE <<"failed", None>>

SameOutcomeForEveryOrdering ==
    \A p \in Orderings(In.actions) :
        Observed(sort_and_update_status([In EXCEPT !.actions = p])) = ObservedNow

\* C4: every two orderings of the same actions give the same outcome (the same
\* status, or a failure in both), also when several actions share a date instant.
C4_OrderInvariantWithTies == Resolved => SameOutcomeForEveryOrdering

\* C5: with a declared status S and a computed status C the call succeeds iff
\* S = C, or C is "A/B" and S is exactly A or exactly B; otherwise it fails
\* with StatusMismatch.
C5_DeclaredStatusAgreement ==
    LET computed == join_status(Surviving)
        declared == Unwrap(In.currentstatus)
        agrees == \/ declared = computed
                  \/ /\ Len(Surviving) = 2
                     /\ declared \in {Surviving[1], Surviving[2]}
    IN (/\ Resolved /\ AllActionsResolve /\ IsSome(In.currentstatus)
        /\ (contains(computed, Slash) => computed \in MultiStatusWhitelist))
       => /\ (outcome = "ok") <=> agrees
          /\ (outcome # "ok") => outcome = "StatusMismatch"

\* the rule table of opt_to_current_status, by kind: the accepted result texts
AcceptedResults(kind) ==
    CASE kind \in {"FAC", "FLC", "FPROC"} -> PassLike \cup FailLike
      [] kind \in {"FAR", "FLR", "FPOR"} -> KeptLike \cup DemotedLike
      [] kind = "GAN" -> GanPass \cup GanFail
      [] kind = "GAR" -> KeptLike \cup GarFail
      [] OTHER -> {}

UnknownResult(a) ==
    /\ a.kind \in ReviewKinds
    /\ \/ IsNone(a.result)
       \/ to_ascii_lowercase(Unwrap(a.result)) \notin AcceptedResults(a.kind)

\* C10: an action of a reviewing kind whose result is absent or outside the rule
\* table makes the call fail with UnknownActionResult wherever it falls in date
\* order, and current_status keeps its value.
C10_UnknownResultFails ==
    (Resolved /\ \E i \in 1..Len(In.actions) : UnknownResult(In.actions[i]))
       => /\ outcome = "UnknownActionResult"
          /\ Out.currentstatus = In.currentstatus

\* the unknown result sits on an older action; a more recent one yields a token
C10_Witness ==
    /\ Resolved /\ outcome = "UnknownActionResult"
    /\ In.currentstatus = Some(GA) /\ Out.currentstatus = Some(GA)
    /\ \E i, j \in 1..Len(In.actions) :
          /\ UnknownResult(In.actions[i])
          /\ In.actions[i].date.date < In.actions[j].date.date
          /\ opt_to_current_status(In.actions[j]) = Ok(Some(GA))

----------------------------------------------------------------------------
(* Claims about treat (checked under Spec)                                  *)

Done == pc = "done"

ErrorOutcomes ==
    {"DateParseFailure", "UnrecognizedParameter", "DuplicateParameter",
     "MissingRequiredField", "TopicConflict", "UnknownActionResult", "AmbiguousStatus",
     "StatusMismatch", "InvalidType", "UnknownActionKind", "LookupFailed", "StdinClosed",
     "UnrecognizedResponse", "CannotDetermineReviewed", "NoDate", "Panic"}

Matched(t) == ExtractorOf(t) # "none"

\* Extract, the fold of every block, resolution and serialization succeeded
AllStepsSucceeded ==
    /\ IsSome(ah)
    /\ idx = Len(templates) + 1
    /\ \A i \in 1..Len(input) : Matched(input[i]) => ~templates[i].attached
    /\ sort_and_update_status(Unwrap(ah)).ok
    /\ article_history.params = build_params(Unwrap(ah))

\* C1: an edit is submitted only when the aggregate decode, the decode and
\* merge of every matched block, resolution and serialization all succeeded;
\* a page on which one of them failed ends with no edit.
C1_EditOnlyAfterEveryStep ==
    /\ edits > 0 => AllStepsSucceeded /\ outcome = "ok"
    /\ outcome \in ErrorOutcomes => edits = 0

\* an edit of a page on which a block was merged and detached
C1_Witness ==
    /\ edits = 1
    /\ \E i \in 1..Len(templates) : ~templates[i].attached
    /\ Unwrap(ah).otds # <<>>

\* the exclusion convention in the claim's words
IsExclusionBlock(t) ==
    \/ t.name = <<"Template:", "Nobots">>
    \/ /\ t.name = <<"Template:", "Bots">>
       /\ \E i \in 1..Len(t.params) :
            \/ t.params[i] = <<Plain("allow"), S("none")>>
            \/ t.params[i] = <<Plain("deny"), S("all")>>
            \/ t.params[i] = <<Plain("optout"), S("all")>>
            \/ /\ t.params[i][1] = Plain("deny")
               /\ \E j \in 1..Len(t.params[i][2]) : t.params[i][2][j] = "DeadbeefBot"

FirstExclusion == find([i \in 1..Len(input) |-> IsExclusionBlock(input[i])])

\* C2: on a page with an exclusion block no edit is ever submitted, and the
\* page ends with BotExcluded as soon as the fold reaches the block, with every
\* matched block before it folded and detached; the only other endings are
\* failures of a step that comes before the block.
C2_BotExclusion ==
    FirstExclusion # 0 =>
        /\ edits = 0
        /\ idx <= FirstExclusion
        /\ Done =>
            \/ /\ outcome = "BotExcluded"
               /\ idx = FirstExclusion
               /\ \A i \in 1..(idx - 1) : Matched(input[i]) => ~templates[i].attached
            \/ /\ outcome \in ErrorOutcomes \cup {"NoAnchor"}
               /\ idx < FirstExclusion

\* the page ends with BotExcluded after an earlier block was folded and detached
C2_Witness ==
    /\ Done
    /\ outcome = "BotExcluded"
    /\ \E i \in 1..(idx - 1) : ~templates[i].attached
    /\ IsExclusionBlock(templates[idx])
    /\ templates[idx].name = <<"Template:", "Bots">>

\* the status the actions of an aggregate resolve to, <<"?">> when they do not
Derived(a) ==
    LET toks == collect_status(sort_by_key(a.actions))
    IN IF toks.ok THEN compute_status(toks.v) ELSE <<"?">>

DeclaredGaDerivedFfa(a) == a.currentstatus = Some(GA) /\ Derived(a) = FFA

\* C6: resolving an aggregate that declares "GA" while its actions resolve to
\* "FFA" ends the page with StatusMismatch, the aggregate still reads "GA",
\* and no edit is submitted.
C6_ConflictDetection ==
    /\ [][(pc = "fold" /\ idx > Len(templates) /\ DeclaredGaDerivedFfa(Unwrap(ah)))
            => /\ pc' = "done"
               /\ outcome' = "StatusMismatch"
               /\ Unwrap(ah').currentstatus = Some(GA)
               /\ templates' = templates
               /\ edits' = 0]_vars
    /\ [](outcome = "StatusMismatch" => edits = 0)

\* a page that ended with StatusMismatch on such an aggregate
C6_Witness ==
    /\ Done
    /\ outcome = "StatusMismatch"
    /\ idx > Len(templates)
    /\ DeclaredGaDerivedFfa(Unwrap(ah))

\* the parameter names of each extractor's schema
InSchema(e, key) ==
    CASE e = "dyk" -> key \in UNION {f.names : f \in DykSchema}
      [] e = "oldpr" -> key \in UNION {f.names : f \in OldPrSchema}
      [] e = "ga" -> key \in UNION {f.names : f \in GaSchema}
      [] e = "failedga" -> key \in UNION {f.names : f \in FailedGaSchema}
      [] e = "otd" -> key.pre \in {"date", "oldid"} /\ IsSome(key.num) /\ key.suf = ""
      [] e = "itn" -> \/ key \in {Positional(1), Positional(2)}
                      \/ key.pre \in {"date", "oldid", "alt"} /\ key.suf = ""
      [] OTHER -> TRUE

HasUnknownName(t) ==
    \E i \in 1..Len(t.params) : ~InSchema(ExtractorOf(t), t.params[i][1])

DecodeErrors ==
    {"UnrecognizedParameter", "DateParseFailure", "DuplicateParameter",
     "MissingRequiredField"}

\* C9: when the fold visits a block that a registered extractor matches and
\* that carries a parameter name outside the extractor's schema, the decode
\* fails, the block stays attached, the aggregate is left as it was and the
\* page ends without an edit.
C9_UnknownFieldRejection ==
    /\ [][(pc = "fold" /\ idx <= Len(templates) /\ Matched(templates[idx])
             /\ HasUnknownName(templates[idx]))
            => /\ pc' = "done"
               /\ outcome' \in DecodeErrors
               /\ templates' = templates
               /\ ah' = ah
               /\ edits' = 0]_vars
    /\ [](Done /\ outcome \in DecodeErrors => edits = 0)

\* a page that ended on such a block after an earlier block was merged
C9_Witness ==
    /\ Done
    /\ outcome = "UnrecognizedParameter"
    /\ idx \in 2..Len(templates)
    /\ Matched(templates[idx])
    /\ HasUnknownName(templates[idx])
    /\ templates[idx].attached
    /\ ~templates[idx - 1].attached

\* parameters with the substitution markers taken off
StripMarkers(params) ==
    [i \in 1..Len(params) |->
        <<[params[i][1] EXCEPT !.mark = <<>>],
          SelectSeq(params[i][2], LAMBDA c : c # SubstNewline)>>]

ParameterSet(params) == {params[i] : i \in 1..Len(params)}

\* the merge run once more on parameters it wrote
SecondPass(params) ==
    LET t == [name |-> AhName, params |-> params, attached |-> TRUE]
        decoded == ah_extract(t)
        written == into_template(decoded.v, t)
    IN IF decoded.ok /\ written.ok THEN Some(StripMarkers(written.t.params)) ELSE None

\* the page holds the aggregate block alone and its declared status is the
\* status its actions resolve to
CanonicalAggregateOnly ==
    /\ Len(input) = 1
    /\ IsArticleHistory(input[1])
    /\ IsSome(param(input[1], Plain("currentstatus")))
    /\ param(input[1], Plain("currentstatus")) = Unwrap(ah).currentstatus

\* C7: the merge of a page that holds only a canonical aggregate writes the
\* parameters it read, up to order and markers, and a second merge of what it
\* wrote writes the same again.
C7_Idempotence ==
    (pc = "submit" /\ CanonicalAggregateOnly) =>
        LET written == StripMarkers(article_history.params)
        IN /\ ParameterSet(written) = ParameterSet(input[1].params)
           /\ SecondPass(written) = Some(written)

\* C8: an empty aggregate and one "on this day" block with date1 and oldid1
\* merge into an aggregate with exactly that record, the block detached and
\* the status as it was before the merge.
C8_EndToEnd ==
    (pc = "submit" /\ input = <<AhEmpty, OtdOk>>) =>
        /\ Len(Unwrap(ah).otds) = 1
        /\ Unwrap(ah).otds[1].date.orig = S("January 1, 2020")
        /\ Unwrap(ah).otds[1].oldid = Some(S("12345"))
        /\ Unwrap(ah).otds[1].link = None
        /\ ~templates[2].attached
        /\ Unwrap(ah).currentstatus = ah_extract(input[1]).v.currentstatus

\* the parameters of the aggregate block as the page held them
InputAggregateParams == IF target = 0 THEN <<>> ELSE input[target].params

\* the date texts of the records of one family the aggregate block holds, by
\* index from 1 on (the first record of every family but the actions is the
\* one without a number)
RECURSIVE AggDateTexts(_, _, _)
AggDateTexts(params, fam, i) ==
    LET num == IF i = 1 /\ fam # "action" THEN None ELSE Some(i)
        v == param([params |-> params], K(fam, num, "date"))
    IN IF IsNone(v) THEN <<>> ELSE <<Unwrap(v)>> \o AggDateTexts(params, fam, i + 1)

\* the date texts of the complete records of one "on this day" block
RECURSIVE OtdBlockTexts(_, _)
OtdBlockTexts(t, n) ==
    IF IsSome(param(t, Numbered("date", n))) /\ IsSome(param(t, Numbered("oldid", n)))
    THEN <<Unwrap(param(t, Numbered("date", n)))>> \o OtdBlockTexts(t, n + 1)
    ELSE <<>>

RECURSIVE SecondaryOtdTexts(_)
SecondaryOtdTexts(ts) ==
    IF ts = <<>> THEN <<>>
    ELSE (IF ExtractorOf(Head(ts)) = "otd" THEN OtdBlockTexts(Head(ts), 1) ELSE <<>>)
         \o SecondaryOtdTexts(Tail(ts))

Count(s, x) == Cardinality({i \in 1..Len(s) : s[i] = x})
Origs(records) == [i \in 1..Len(records) |-> records[i].date.orig]
IsPrefix(s, t) == Len(s) <= Len(t) /\ SubSeq(t, 1, Len(s)) = s

\* C11: once the parameters are written, every record of the aggregate is
\* written with the date text it holds, and the texts it holds are the texts
\* the records were read from (in the aggregate block and in the "on this
\* day" blocks), whatever their instants and the order after sorting.
C11_DateFidelity ==
    pc = "submit" =>
        LET a == Unwrap(ah)
            W == [params |-> StripMarkers(article_history.params)]
            P == InputAggregateParams
        IN /\ \A i \in 1..Len(a.actions) :
                param(W, K("action", Some(i), "date")) = Some(a.actions[i].date.orig)
           /\ \A i \in 1..Len(a.otds) :
                param(W, K("otd", Some(i), "date")) = Some(a.otds[i].date.orig)
           /\ \A i \in 1..Len(a.itns) :
                param(W, K("itn", Some(i), "date")) = Some(a.itns[i].date.orig)
           /\ \A i \in 1..Len(a.dyks) :
                param(W, K("dyk", Unsuffixed(i), "date")) = Some(a.dyks[i].date.orig)
           /\ Origs(a.otds) = AggDateTexts(P, "otd", 1) \o SecondaryOtdTexts(input)
           /\ IsPrefix(AggDateTexts(P, "dyk", 1), Origs(a.dyks))
           /\ IsPrefix(AggDateTexts(P, "itn", 1), Origs(a.itns))
           /\ \A i \in 1..Len(AggDateTexts(P, "action", 1)) :
                LET x == AggDateTexts(P, "action", 1)[i]
                IN Count(AggDateTexts(P, "action", 1), x) <= Count(Origs(a.actions), x)

\* two actions of one instant and two texts were written next to the record
\* of an "on this day" block
C11_Witness ==
    /\ pc = "submit"
    /\ Len(Unwrap(ah).otds) = 1
    /\ \E i, j \in 1..Len(Unwrap(ah).actions) :
          /\ Unwrap(ah).actions[i].date.date = Unwrap(ah).actions[j].date.date
          /\ Unwrap(ah).actions[i].date.orig = S("2020-01-01")
          /\ Unwrap(ah).actions[j].date.orig = S("January 1, 2020")

\* C12: a page that ended with a failure of the error taxonomy (a panic
\* included) is followed by the treatment of the next page of the list.
C12_FailureEndsOnlyThePage ==
    [][(pc = "done" /\ outcome \in ErrorOutcomes /\ page < MaxPages)
          => (pc' = "locate" /\ page' = page + 1)]_vars

AggregateBlocks == {i \in 1..Len(input) : IsArticleHistory(input[i])}

\* C13: on a page with more than one block under the aggregate aliases no
\* parameters are written to the first of them and no edit is submitted.
C13_AmbiguousAggregate ==
    Cardinality(AggregateBlocks) > 1 => (edits = 0 /\ pc # "submit")

NoAggregateBlock == \A i \in 1..Len(templates) : ~IsArticleHistory(templates[i])
\* the anchor in the claim's words
BannerShells ==
    {i \in 1..Len(templates) : templates[i].name = <<"Template:", "WikiProject banner shell">>}

\* C14: without an aggregate block and without a banner shell the page ends
\* at Locate with nothing created, renamed or removed and no edit; with a
\* banner shell one empty aggregate block is mounted before the first banner
\* shell and is the block the aggregate is read from and written to.
C14_Locate ==
    /\ [][(pc = "locate" /\ NoAggregateBlock) =>
            IF BannerShells = {}
            THEN /\ pc' = "done"
                 /\ outcome' = "NoAnchor"
                 /\ templates' = templates
                 /\ created' = None
                 /\ ah' = None
                 /\ edits' = 0
            ELSE /\ pc' = "extract"
                 /\ templates' = templates
                 /\ target' = 0
                 /\ created' = Some([name |-> AhName, params |-> <<>>, attached |-> TRUE,
                                     before |-> CHOOSE i \in BannerShells :
                                                    \A j \in BannerShells : i <= j])]_vars
    /\ [](outcome = "NoAnchor" => (edits = 0 /\ templates = input /\ created = None))
    /\ []((pc = "submit" /\ IsSome(created)) =>
            /\ target = 0
            /\ \A i \in 1..Len(templates) : templates[i].name = input[i].name
            /\ Unwrap(created).params = build_params(Unwrap(ah)))

\* the aggregate was written to a block mounted before the banner shell of a
\* page that begins with another block
C14_Witness ==
    /\ pc = "submit"
    /\ IsSome(created)
    /\ Unwrap(created).before = 2
    /\ input[2] = Banner
    /\ Unwrap(ah).otds # <<>>

Opt(o) == IF IsSome(o) THEN 1 ELSE 0

RECURSIVE Sum(_, _)
Sum(s, i) == IF i > Len(s) THEN 0 ELSE s[i] + Sum(s, i + 1)

\* the number of parameter values an aggregate holds
Held(a) ==
    Sum([i \in 1..Len(a.actions) |->
            2 + Opt(a.actions[i].link) + Opt(a.actions[i].result) + Opt(a.actions[i].oldid)], 1)
    + Sum([i \in 1..Len(a.otds) |-> 1 + Opt(a.otds[i].oldid) + Opt(a.otds[i].link)], 1)
    + Sum([i \in 1..Len(a.itns) |-> 1 + Opt(a.itns[i].link)], 1)
    + Sum([i \in 1..Len(a.dyks) |-> 1 + Opt(a.dyks[i].entry) + Opt(a.dyks[i].nom)], 1)
    + Len(a.featured_topics)
    + Opt(a.currentstatus) + Opt(a.maindate) + Opt(a.maindate2) + Opt(a.topic)

\* C15: when the decode of the aggregate block succeeds, the aggregate holds
\* a value for every parameter of the block.
C15_NoSilentLoss ==
    (pc = "fold" /\ idx = 1 /\ target # 0) =>
        Held(Unwrap(ah)) = Len(input[target].params)

DateWithoutOldid(t) ==
    \E i \in 1..Len(t.params) :
        /\ t.params[i][1].pre = "date" /\ IsSome(t.params[i][1].num)
        /\ IsNone(param(t, Numbered("oldid", Unwrap(t.params[i][1].num))))

\* C16: an "on this day" block with a date{n} and no oldid{n} is never
\* detached from the page.
C16_DateWithoutOldidFails ==
    \A i \in 1..Len(templates) :
        (ExtractorOf(input[i]) = "otd" /\ DateWithoutOldid(input[i])) => templates[i].attached

RoundTripFields ==
    {"actions", "itns", "dyks", "otds", "featured_topics", "topic", "four", "collapse", "small"}

\* the aggregate decoded from parameters the serializer wrote
DecodedAgain(params) ==
    ah_extract([name |-> AhName, params |-> StripMarkers(params), attached |-> TRUE])

\* C17: the parameters written for an aggregate decode, once the markers are
\* taken off, to an aggregate with the same records, topic and flags.
C17_SerializeThenDecode ==
    pc = "submit" =>
        /\ DecodedAgain(article_history.params).ok
        /\ \A f \in RoundTripFields :
              DecodedAgain(article_history.params).v[f] = Unwrap(ah)[f]

Slashes(s) == Cardinality({i \in 1..Len(s) : s[i] = "/"})

\* C18: a call that succeeds leaves a status without '/', or exactly "FFA/GA"
\* or "FFAC/GA"; when the two filtering passes leave several tokens that join
\* to anything else, the call fails and current_status keeps its value.
C18_SlashOnlyWhitelisted ==
    Resolved =>
        /\ outcome = "ok" =>
              \/ Slashes(Unwrap(Out.currentstatus)) = 0
              \/ Unwrap(Out.currentstatus) \in
                    {<<"F", "F", "A", "/", "G", "A">>, <<"F", "F", "A", "C", "/", "G", "A">>}
        /\ (/\ AllActionsResolve
            /\ Len(Surviving) > 1
            /\ join_status(Surviving) \notin
                  {<<"F", "F", "A", "/", "G", "A">>, <<"F", "F", "A", "C", "/", "G", "A">>})
              => (outcome = "AmbiguousStatus" /\ Out.currentstatus = In.currentstatus)

\* "GA/FFA": a delisting from featured status, then a later listing as good
\* article, on an aggregate that declares GA
C18_Witness ==
    /\ Resolved
    /\ outcome = "AmbiguousStatus"
    /\ Surviving = <<GA, FFA>>
    /\ In.currentstatus = Some(GA)
    /\ Out.currentstatus = Some(GA)

\* the topic a GA or failed-GA block asserts
AssertedTopic(t) == or(param(t, Plain("topic")), param(t, Plain("subtopic")))

\* C19: a page ends with a topic conflict only on a block whose topic differs
\* from the aggregate's topic by more than letter case.
C19_TopicConflictIgnoresCase ==
    (Done /\ outcome = "TopicConflict") =>
        /\ ExtractorOf(templates[idx]) \in {"ga", "failedga"}
        /\ ~eq_ignore_ascii_case(Unwrap(Unwrap(ah).topic),
                                 Unwrap(AssertedTopic(templates[idx])))

ImpliesAction(t) == ExtractorOf(t) \in {"ga", "failedga", "oldpr"}

\* the link the claim gives the action of a merged block
LinkHasTitle(t, link) ==
    IF ExtractorOf(t) \in {"ga", "failedga"}
    THEN link = Some(title \o <<"/GA">> \o Unwrap(param(t, Plain("page"))))
    ELSE IF IsNone(param(t, Plain("archivelink"))) /\ IsNone(param(t, Plain("reviewedname")))
    THEN IsSome(link) /\ contains(Unwrap(link), Tail(title))
    ELSE TRUE

\* C20: the merge of a GA, failed-GA or peer-review block appends one action
\* to the aggregate, and the link of that action carries the page title.
C20_OneActionWithTitle ==
    [][(pc = "fold" /\ idx <= Len(templates) /\ ImpliesAction(templates[idx])
          /\ idx' = idx + 1)
        => /\ Len(Unwrap(ah').actions) = Len(Unwrap(ah).actions) + 1
           /\ SubSeq(Unwrap(ah').actions, 1, Len(Unwrap(ah).actions)) = Unwrap(ah).actions
           /\ LinkHasTitle(templates[idx],
                           Unwrap(ah').actions[Len(Unwrap(ah').actions)].link)]_vars

\* C21: for every edit count and every answer, the merge of a peer-review
\* block without a date fails and appends no action; with a date and a count
\* below the threshold it fails when interaction is not permitted, and when it
\* is permitted it appends "Reviewed" on y, "Not reviewed" on n and fails on
\* every other answer.
C21_PeerReviewMerge ==
    (/\ pc = "fold" /\ idx <= Len(templates)
     /\ ExtractorOf(templates[idx]) = "oldpr"
     /\ simple_extract(templates[idx], OldPrSchema).ok) =>
        \A env \in Environments :
            LET t == templates[idx]
                r == extract_all([title |-> title, allow_interactive |-> interactive],
                                 env, t, Unwrap(ah))
                old == Unwrap(ah).actions
                hasDate == IsSome(param(t, Plain("date")))
                low == IsSome(env.count) /\ Unwrap(env.count) < 7
                appended(text) ==
                    /\ r.ok
                    /\ Len(r.v.actions) = Len(old) + 1
                    /\ r.v.actions[Len(old) + 1].result = Some(S(text))
            IN /\ ~hasDate => (~r.ok /\ r.v.actions = old)
               /\ (hasDate /\ low /\ ~interactive) => (~r.ok /\ r.v.actions = old)
               /\ (hasDate /\ low /\ interactive /\ env.answer = Some("y"))
                     => appended("Reviewed")
               /\ (hasDate /\ low /\ interactive /\ env.answer = Some("n"))
                     => appended("Not reviewed")
               /\ (hasDate /\ low /\ interactive /\ env.answer \notin {Some("y"), Some("n")})
                     => (~r.ok /\ r.v.actions = old)

\* the page ended on a peer-review block without a date
C21_Witness ==
    /\ Done
    /\ outcome = "NoDate"
    /\ templates[idx] = OldPrNoDate
    /\ Unwrap(ah).actions = <<>>

AliasOf(e) ==
    CASE e = "dyk" -> DYK_ALIAS
      [] e = "oldpr" -> OLDPR_ALIAS
      [] e = "ga" -> GA_ALIAS
      [] e = "failedga" -> FAILEDGA_ALIAS
      [] e = "otd" -> OTD_ALIAS
      [] e = "itn" -> ITN_ALIAS

DispatchOrder == <<"dyk", "oldpr", "ga", "failedga", "otd", "itn">>

Matching(t) == {i \in 1..Len(DispatchOrder) : is_extractable(AliasOf(DispatchOrder[i]), t)}

\* C22: at most one extractor matches a block and it is the first of the
\* order DYK, peer review, GA, failed GA, OTD, ITN; the step over a matched
\* block either merges what that extractor decoded and detaches that block
\* alone, or ends the page with the document as it was; the step over a block
\* no extractor matches changes neither the document nor the aggregate.
C22_Dispatch ==
    [][(pc = "fold" /\ idx <= Len(templates) /\ ~IsExclusionBlock(templates[idx])) =>
        LET t == templates[idx]
            M == Matching(t)
            cx == [title |-> title, allow_interactive |-> interactive]
        IN /\ Cardinality(M) <= 1
           /\ M = {} => (ah' = ah /\ templates' = templates /\ idx' = idx + 1)
           /\ \A i \in M :
                /\ \A j \in 1..(i - 1) : j \notin M
                /\ IF idx' = idx + 1
                   THEN /\ extract(DispatchOrder[i], t).ok
                        /\ \E env \in Environments \cup EnvironmentsOf(t) :
                              ah' = Some(merge_value_into(DispatchOrder[i], cx, env,
                                             extract(DispatchOrder[i], t).v, Unwrap(ah)).v)
                        /\ templates' = [templates EXCEPT ![idx].attached = FALSE]
                   ELSE pc' = "done" /\ templates' = templates]_vars

\* the fold went over the aggregate block, left it alone, and merged and
\* detached the block after it
C22_Witness ==
    /\ pc = "fold"
    /\ idx = 3
    /\ target = 1
    /\ templates[1].attached
    /\ templates[1].params = input[1].params
    /\ ~templates[2].attached
    /\ ExtractorOf(input[2]) = "dyk"
    /\ Len(Unwrap(ah).dyks) = 1

\* the keys "action<i>" of a parameter list, in the order of the list
ActionHeads(params) ==
    SelectSeq(params, LAMBDA p : p[1].pre = "action" /\ p[1].suf = "")

\* C23: after sort_and_update_status, failed or not, the actions are those of
\* before the call, in ascending order of instant and, among equal instants,
\* in the order they had; the serializer writes the i-th of them under the
\* keys action<i>, action<i>date, ... for i = 1..N.
C23_StableSortAndNumbering ==
    Resolved =>
        LET n == Len(In.actions)
            ps == StripMarkers(add_all("action", Out.actions, <<>>))
            heads == ActionHeads(ps)
        IN /\ Len(Out.actions) = n
           /\ \E f \in Bijections(n) :
                /\ \A i \in 1..n : Out.actions[i] = In.actions[f[i]]
                /\ \A i, j \in 1..n :
                     i < j => \/ Out.actions[i].date.date < Out.actions[j].date.date
                              \/ /\ Out.actions[i].date.date = Out.actions[j].date.date
                                 /\ f[i] < f[j]
           /\ Len(heads) = n
           /\ \A i \in 1..n :
                /\ heads[i] = <<K("action", Some(i), ""), S(Out.actions[i].kind)>>
                /\ <<K("action", Some(i), "date"), Out.actions[i].date.orig>> \in ParameterSet(ps)
           /\ \A i \in 1..Len(ps) :
                ps[i][1].pre = "action" /\ IsSome(ps[i][1].num) /\ Unwrap(ps[i][1].num) \in 1..n

\* the call moved the later of two actions of different kinds behind the
\* earlier one
C23_Witness ==
    /\ Resolved
    /\ outcome = "ok"
    /\ Len(In.actions) = 2
    /\ In.actions[1].date.date > In.actions[2].date.date
    /\ In.actions[1].kind # In.actions[2].kind
    /\ Out.actions = <<In.actions[2], In.actions[1]>>

Administrative ==
    {"BP", "FTC", "FTR", "GTC", "PR", "WPR", "WAR", "AFD", "MFD", "TFD", "CSD", "PROD", "DRV"}

AdministrativeResults == {None, Some(S("promoted")), Some(S("bogus"))}

AdministrativeActions ==
    {MkAction(k, r, Date(d)) : k \in Administrative, r \in AdministrativeResults, d \in ThreeDates}

InsertAt(s, i, x) == SubSeq(s, 1, i - 1) \o <<x>> \o SubSeq(s, i, Len(s))

\* one action of every administrative kind, of one result and one date
OneOfEach(r, d) ==
    << MkAction("BP", r, d), MkAction("FTC", r, d), MkAction("FTR", r, d),
       MkAction("GTC", r, d), MkAction("PR", r, d), MkAction("WPR", r, d),
       MkAction("WAR", r, d), MkAction("AFD", r, d), MkAction("MFD", r, d),
       MkAction("TFD", r, d), MkAction("CSD", r, d), MkAction("PROD", r, d),
       MkAction("DRV", r, d) >>

\* C24: an action of kind BP, FTC, FTR, GTC, PR, WPR, WAR, AFD, MFD, TFD, CSD,
\* PROD or DRV yields no token whatever its result, and an action list with
\* one such action put at any position, or with one of each kind put before
\* or after it, resolves as the list without them: the same failure, or the
\* same status.
C24_AdministrativeKindsAreNeutral ==
    Resolved =>
        /\ \A x \in AdministrativeActions :
              /\ opt_to_current_status(x) = Ok(None)
              /\ \A i \in 1..(Len(In.actions) + 1) :
                    Observed(sort_and_update_status(
                        [In EXCEPT !.actions = InsertAt(@, i, x)])) = ObservedNow
        /\ \A r \in AdministrativeResults : \A d \in ThreeDates :
              /\ Observed(sort_and_update_status(
                     [In EXCEPT !.actions = @ \o OneOfEach(r, Date(d))])) = ObservedNow
              /\ Observed(sort_and_update_status(
                     [In EXCEPT !.actions = OneOfEach(r, Date(d)) \o @])) = ObservedNow

\* a listed nomination followed by a later peer review resolved to GA
C24_Witness ==
    /\ Resolved
    /\ outcome = "ok"
    /\ Len(In.actions) = 2
    /\ In.actions[1].kind = "GAN"
    /\ In.actions[2].kind = "PR"
    /\ In.actions[2].result = Some(S("Reviewed"))
    /\ In.actions[2].date.date > In.actions[1].date.date
    /\ Out.currentstatus = Some(GA)

\* the block into_template wrote
Written == IF target = 0 THEN Unwrap(created) ELSE templates[target]

GroupOrder ==
    <<"action", "currentstatus", "maindate", "maindate2", "itn", "dyk", "otd", "four", "ft",
      "topic", "collapse", "small">>

Group(key) == CHOOSE g \in 1..Len(GroupOrder) : GroupOrder[g] = key.pre
IndexOfKey(key) == IF IsSome(key.num) THEN Unwrap(key.num) ELSE 1

Grouped(params) ==
    /\ \A i \in 1..Len(params) : \E g \in 1..Len(GroupOrder) : GroupOrder[g] = params[i][1].pre
    /\ \A i, j \in 1..Len(params) :
         i < j => \/ Group(params[i][1]) < Group(params[j][1])
                  \/ /\ Group(params[i][1]) = Group(params[j][1])
                     /\ IndexOfKey(params[i][1]) <= IndexOfKey(params[j][1])

\* the fields no block of the pages sets together, put on a resolved aggregate
Extras ==
    LET ft1 == [name |-> S("Solar System"), main |-> TRUE]
        ft2 == [name |-> S("Planets"), main |-> FALSE]
    IN {[maindate |-> md, maindate2 |-> md2, four |-> fl, featured_topics |-> fts,
         collapse |-> fl, small |-> sm] :
           md \in {None, Some(Date("1 March 2021"))},
           md2 \in {None, Some(Date("5 May 2022"))},
           fl \in BOOLEAN, sm \in BOOLEAN,
           fts \in {<<>>, <<ft1, ft2>>}}

WithExtras(a, x) ==
    [a EXCEPT !.maindate = x.maindate, !.maindate2 = x.maindate2, !.four = x.four,
              !.featured_topics = x.featured_topics, !.collapse = x.collapse,
              !.small = IF a.small THEN TRUE ELSE x.small]

\* C25: the parameters into_template writes come in the groups actions,
\* currentstatus, maindate, maindate2, ITN, DYK, OTD, four, featured topics,
\* topic, collapse, small: no key of a later group precedes a key of an
\* earlier one, and inside a family the indices ascend.  The same holds of
\* the aggregate with main dates, flags and featured topics set on it.
C25_KeyOrder ==
    pc = "submit" =>
        /\ Written.params = build_params(Unwrap(ah))
        /\ Grouped(Written.params)
        /\ \A x \in Extras : Grouped(build_params(WithExtras(Unwrap(ah), x)))

\* a written block with two actions, a status, an "on this day" record and a
\* topic
C25_Witness ==
    /\ pc = "submit"
    /\ \A pre \in {"action", "currentstatus", "otd", "topic"} :
          \E i \in 1..Len(Written.params) : Written.params[i][1].pre = pre
    /\ \E i \in 1..Len(Written.params) : Written.params[i][1].num = Some(2)

HasKey(params, key) == \E i \in 1..Len(params) : params[i][1] = key
ValueOf(params, key) == params[CHOOSE i \in 1..Len(params) : params[i][1] = key][2]

\* an optional field: no key when absent, its text when present
OptionalWritten(params, key, value) ==
    IF IsSome(value) THEN HasKey(params, key) /\ ValueOf(params, key) = Unwrap(value)
    ELSE ~HasKey(params, key)

\* a flag: no key when false, "yes" when true
FlagWritten(params, key, flag) ==
    IF flag THEN HasKey(params, key) /\ ValueOf(params, key) = S("yes")
    ELSE ~HasKey(params, key)

\* no action of the aggregate yields a token
NoDerivedStatus(a) == collect_status(a.actions).ok /\ collect_status(a.actions).v = <<>>

OptionalsAndFlagsWritten ==
    LET a == Unwrap(ah)
        ps == StripMarkers(Written.params)
    IN /\ \A i \in 1..Len(a.actions) :
            /\ OptionalWritten(ps, K("action", Some(i), "link"), a.actions[i].link)
            /\ OptionalWritten(ps, K("action", Some(i), "result"), a.actions[i].result)
            /\ OptionalWritten(ps, K("action", Some(i), "oldid"), a.actions[i].oldid)
       /\ \A i \in 1..Len(a.otds) :
            /\ OptionalWritten(ps, K("otd", Some(i), "oldid"), a.otds[i].oldid)
            /\ OptionalWritten(ps, K("otd", Some(i), "link"), a.otds[i].link)
       /\ \A i \in 1..Len(a.itns) :
            OptionalWritten(ps, K("itn", Some(i), "link"), a.itns[i].link)
       /\ \A i \in 1..Len(a.dyks) :
            /\ OptionalWritten(ps, K("dyk", Unsuffixed(i), "entry"), a.dyks[i].entry)
            /\ OptionalWritten(ps, K("dyk", Unsuffixed(i), "nom"), a.dyks[i].nom)
            /\ FlagWritten(ps, K("dyk", Unsuffixed(i), "ignoreerror"), a.dyks[i].ignoreerror)
       /\ OptionalWritten(ps, Plain("maindate"), OrigOf(a.maindate))
       /\ OptionalWritten(ps, Plain("maindate2"), OrigOf(a.maindate2))
       /\ OptionalWritten(ps, Plain("topic"), a.topic)
       /\ FlagWritten(ps, Plain("four"), a.four)
       /\ FlagWritten(ps, Plain("collapse"), a.collapse)
       /\ FlagWritten(ps, Plain("small"), a.small)

\* C26: in the parameters into_template writes an absent optional field has
\* no key, a false flag has no key, a true flag has the value "yes", no key
\* has an empty value, and an aggregate none of whose actions yields a status
\* has no currentstatus key.
C26_AbsentMeansNoKey ==
    pc = "submit" =>
        /\ OptionalsAndFlagsWritten
        /\ \A i \in 1..Len(Written.params) : StripMarkers(Written.params)[i][2] # <<>>
        /\ NoDerivedStatus(Unwrap(ah)) => ~HasKey(StripMarkers(Written.params), Plain("currentstatus"))

\* how many line-continuation markers end a value
RECURSIVE TrailingMarkers(_)
TrailingMarkers(value) ==
    IF value # <<>> /\ value[Len(value)] = SubstNewline
    THEN 1 + TrailingMarkers(SubSeq(value, 1, Len(value) - 1))
    ELSE 0

\* the positions of the fields of record i of a family
FieldsOfRecord(params, family, i) ==
    {p \in 1..Len(params) : params[p][1].pre = family /\ IndexOfKey(params[p][1]) = i}

LastFieldOfRecord(params, family, i) ==
    params[CHOOSE p \in FieldsOfRecord(params, family, i) :
              \A q \in FieldsOfRecord(params, family, i) : q <= p][2]

RecordsWritten(a) ==
    {<<"action", i>> : i \in 1..Len(a.actions)} \cup {<<"itn", i>> : i \in 1..Len(a.itns)}
    \cup {<<"dyk", i>> : i \in 1..Len(a.dyks)} \cup {<<"otd", i>> : i \in 1..Len(a.otds)}

\* C27: in the parameters into_template writes, the last field of every
\* action, ITN, DYK and OTD record ends with the line-continuation marker
\* exactly once.
C27_OneMarkerPerRecord ==
    pc = "submit" =>
        \A rec \in RecordsWritten(Unwrap(ah)) :
            /\ FieldsOfRecord(Written.params, rec[1], rec[2]) # {}
            /\ TrailingMarkers(LastFieldOfRecord(Written.params, rec[1], rec[2])) = 1

\* the positions of the input's actions that yield a token
TokenActions ==
    {i \in 1..Len(In.actions) :
        opt_to_current_status(In.actions[i]).ok /\ IsSome(opt_to_current_status(In.actions[i]).v)}

\* the one of greatest instant, the last of them among equal instants
MostRecentTokenAction ==
    CHOOSE i \in TokenActions :
        \A j \in TokenActions :
            \/ In.actions[j].date.date < In.actions[i].date.date
            \/ In.actions[j].date.date = In.actions[i].date.date /\ j <= i

\* the text before the first '/'
FirstComponent(s) ==
    IF \E i \in 1..Len(s) : s[i] = "/"
    THEN SubSeq(s, 1, (CHOOSE i \in 1..Len(s) : s[i] = "/" /\ \A j \in 1..(i - 1) : s[j] # "/") - 1)
    ELSE s

\* C28: when sort_and_update_status succeeds and some action yields a token,
\* the first '/'-separated component of the status it assigns is the token of
\* the most recent token-yielding action (greatest instant, last among equal
\* instants).
C28_MostRecentTokenLeads ==
    (Resolved /\ outcome = "ok" /\ TokenActions # {}) =>
        /\ IsSome(Out.currentstatus)
        /\ FirstComponent(Unwrap(Out.currentstatus))
             = Unwrap(opt_to_current_status(In.actions[MostRecentTokenAction]).v)

\* two actions of different tokens, the later one first in the input, and
\* the older token filtered out of the status
C28_Witness ==
    /\ Resolved
    /\ outcome = "ok"
    /\ TokenActions = {1, 2}
    /\ MostRecentTokenAction = 1
    /\ opt_to_current_status(In.actions[1]).v # opt_to_current_status(In.actions[2]).v
    /\ Out.currentstatus = opt_to_current_status(In.actions[1]).v

\* C29: when the decode or the merge of a matched block returns an error, for
\* any answer of the collaborators, the aggregate is as it was before the
\* call: no action, no record and no topic was added or changed.
C29_FailedMergeLeavesAggregate ==
    (pc = "fold" /\ idx <= Len(templates) /\ Matched(templates[idx])) =>
        \A env \in Environments :
            LET r == extract_all([title |-> title, allow_interactive |-> interactive], env,
                                 templates[idx], Unwrap(ah))
            IN (~r.ok /\ ~r.panic) => r.v = Unwrap(ah)

\* the blocks of the page a secondary extractor matched and the fold detached
Folded == {i \in 1..Len(input) : Matched(input[i]) /\ ~templates[i].attached}

\* C30: an edit is submitted for a page only if at least one block matched by
\* a secondary extractor was folded into the aggregate.
C30_EditOnlyAfterFold == edits > 0 => Folded # {}

====
